---- MODULE Spec2Model ----
(***************************************************************************)
(* Catalog ingestion and snapshot store of the Elestrals card finder.      *)
(*                                                                         *)
(* The model follows server/elestrals/cards.ts (readSnapshot,              *)
(* writeSnapshot, fetchCardsFromSources, refreshSnapshot), the search      *)
(* handler that calls it (api/elestrals/search) and the list handler       *)
(* api/elestrals/cards.ts, which keeps its own in-memory cache and its own *)
(* single-dataset snapshot format on the same file.  Requests are served   *)
(* concurrently: every await of the code is a point where another request  *)
(* may run, and the file system is shared by all of them.                  *)
(***************************************************************************)
EXTENDS Integers, Sequences, FiniteSets, TLC

\* ------------------------------------------------------------------ bounds
NProcs == 2        \* requests that may be in progress at the same time
MaxRequests == 3   \* requests started in one behaviour of Spec
MaxSeqRequests == 2   \* requests started in one behaviour of SpecSeq
MaxClock == 2      \* readings of Date.now() range over 1..MaxClock
MaxItems == 2      \* elements of an array in the payloads given to the extractor alone
MaxNodes == 3      \* objects and arrays of a nested payload given to the deep traversal
MaxCards == 3      \* cards of a list given to dedupeCards alone
MaxListLen == 2    \* cards of a short list given to the ranker (every arrangement)
MaxPad == 501      \* characters in front of the query in the longest card name
MaxPage == 4       \* page numbers asked for range up to MaxPage
MaxSearchCards == 7
MaxSessions == 2      \* sessions the page creates
MaxPageCards == 2     \* cards the operator selects from
MaxClicks == 4        \* selections and switch changes of the operator   \* cards of a short snapshot searched page by page

\* --------------------------------------------------------------- constants
CACHE_TTL_MS == 1000 * 60 * 60    \* api/elestrals/cards.ts
MsPerTick == 1000 * 60 * 60       \* one tick of the model's clock is an hour

Procs == 1..NProcs
Variants == {"base", "all"}
\* Strings are sequences of one-character strings, so that trimming and
\* concatenation are computed.  undefined is a value no string equals.
Undef == <<"undefined">>

\* ---------------------------------------------------------- source registry
\* server/elestrals/cards.ts, CARD_SOURCES
CARD_SOURCES ==
  [base |-> << [url |-> "https://collect.elestrals.com/api/cards?base_card=true", type |-> "json"],
               [url |-> "https://collect.elestrals.com/cards.json", type |-> "json"],
               [url |-> "https://collect.elestrals.com/api/cards", type |-> "json"] >>,
   all  |-> << [url |-> "https://collect.elestrals.com/api/cards", type |-> "json"],
               [url |-> "https://collect.elestrals.com/cards.json", type |-> "json"] >>]

\* api/elestrals/cards.ts, CARD_SOURCES (json and html sources interleaved)
API_CARD_SOURCES ==
  [base |-> << [url |-> "https://collect.elestrals.com/api/cards?base_card=true", type |-> "json"],
               [url |-> "https://collect.elestrals.com/cards?base_card=true", type |-> "html"],
               [url |-> "https://collect.elestrals.com/cards.json", type |-> "json"],
               [url |-> "https://collect.elestrals.com/api/cards", type |-> "json"],
               [url |-> "https://collect.elestrals.com/cards", type |-> "html"] >>,
   all  |-> << [url |-> "https://collect.elestrals.com/api/cards", type |-> "json"],
               [url |-> "https://collect.elestrals.com/cards", type |-> "html"],
               [url |-> "https://collect.elestrals.com/cards.json", type |-> "json"] >>]

\* The registry a request walks: the search handler goes through
\* fetchCardsFromSources, the list handler has its own loop and list.
Registry(kind, v) == IF kind = "cards" THEN API_CARD_SOURCES[v] ELSE CARD_SOURCES[v]

\* ------------------------------------------------------- payload extraction
\* A raw record is a function from some property names to strings.
Prop(raw, k) == IF k \in DOMAIN raw THEN raw[k] ELSE Undef

RECURSIVE TrimStart(_)
TrimStart(s) == IF s # << >> /\ Head(s) = " " THEN TrimStart(Tail(s)) ELSE s

RECURSIVE TrimEnd(_)
TrimEnd(s) == IF s # << >> /\ s[Len(s)] = " " THEN TrimEnd(SubSeq(s, 1, Len(s) - 1)) ELSE s

\* String(value).trim()
Trim(s) == TrimEnd(TrimStart(s))

normalizeValue(value) == IF value = Undef THEN Undef ELSE Trim(value)

\* a ?? b ?? c ... over a sequence of already normalized values
RECURSIVE Coalesce(_)
Coalesce(vals) ==
  IF vals = << >> THEN Undef
  ELSE IF Head(vals) # Undef THEN Head(vals)
  ELSE Coalesce(Tail(vals))

FirstAlias(raw, keys) == Coalesce([i \in 1..Len(keys) |-> normalizeValue(Prop(raw, keys[i]))])

\* Mutant of Falsy: nothing counts as missing.
FalsyNever(s) == FALSE

\* !value for a string or undefined
Falsy(s) == s = Undef \/ s = << >>

NoCard == [none |-> TRUE]

\* `${index}` for the indexes the model's payloads reach
IndexString(n) ==
  << CASE n = 0 -> "0" [] n = 1 -> "1" [] n = 2 -> "2" [] n = 3 -> "3" [] n = 4 -> "4"
       [] n = 5 -> "5" [] n = 6 -> "6" [] n = 7 -> "7" [] n = 8 -> "8" [] OTHER -> "9" >>

buildCard(raw, fallbackId) ==
  LET name     == FirstAlias(raw, <<"name", "cardName", "title">>)
      imageUrl == FirstAlias(raw, <<"imageUrl", "image_url", "image", "img", "cardImage">>)
      setNumber == FirstAlias(raw, <<"setNumber", "set_number", "cardNumber", "number", "set">>)
      info     == FirstAlias(raw, <<"info", "text", "description", "effect">>)
      rid      == FirstAlias(raw, <<"id", "slug", "uuid">>)
      id       == IF rid # Undef THEN rid
                  ELSE name \o <<"-">> \o (IF setNumber # Undef THEN setNumber ELSE fallbackId)
  IN IF Falsy(name) \/ Falsy(imageUrl) THEN NoCard
     ELSE [id |-> id, name |-> name, imageUrl |-> imageUrl,
           setNumber |-> IF Falsy(setNumber) THEN Undef ELSE setNumber,
           info |-> IF Falsy(info) THEN Undef ELSE info]

RECURSIVE DropNoCard(_)
DropNoCard(s) ==
  IF s = << >> THEN << >>
  ELSE IF Head(s) = NoCard THEN DropNoCard(Tail(s))
  ELSE <<Head(s)>> \o DropNoCard(Tail(s))

\* items.map((item, index) => buildCard(item, `${index}`)).filter(Boolean)
collectCardsFromArray(items) ==
  DropNoCard([i \in 1..Len(items) |-> buildCard(items[i], IndexString(i - 1))])

\* A payload is a JSON object whose properties hold arrays of raw records:
\* a sequence of <<key, array>> pairs in property order.
\* Mutant of KnownArrays: the arrays are concatenated in the order the
\* properties have in the payload.
RECURSIVE KnownArraysInPropertyOrder(_, _)
KnownArraysInPropertyOrder(payload, keys) ==
  IF payload = << >> THEN << >>
  ELSE (IF \E i \in 1..Len(keys) : keys[i] = Head(payload)[1] THEN Head(payload)[2] ELSE << >>)
       \o KnownArraysInPropertyOrder(Tail(payload), keys)

RECURSIVE KnownArrays(_, _)
KnownArrays(payload, keys) ==
  IF keys = << >> THEN << >>
  ELSE LET hit == {i \in 1..Len(payload) : payload[i][1] = Head(keys)}
       IN (IF hit = {} THEN << >> ELSE payload[CHOOSE i \in hit : TRUE][2])
          \o KnownArrays(payload, Tail(keys))

collectCardsFromObject(payload) ==
  LET possibleArrays == KnownArrays(payload, <<"cards", "data", "items", "results">>)
  IN IF Len(possibleArrays) > 0 THEN collectCardsFromArray(possibleArrays) ELSE << >>

\* visit(): the payload object itself is no card (it has no name), its array
\* children are visited in Object.values order and each record is offered to
\* buildCard with `${results.length}` as fallback id.
RECURSIVE VisitItems(_, _)
VisitItems(items, results) ==
  IF items = << >> THEN results
  ELSE LET card == buildCard(Head(items), IndexString(Len(results)))
       IN VisitItems(Tail(items), IF card = NoCard THEN results ELSE Append(results, card))

RECURSIVE VisitProps(_, _)
VisitProps(payload, results) ==
  IF payload = << >> THEN results
  ELSE VisitProps(Tail(payload), VisitItems(Head(payload)[2], results))

deepCollectCards(payload) == VisitProps(payload, << >>)

\* fetchCardsFromJson after response.json(): known keys first, deep traversal
\* only when they gave nothing.
ExtractCards(payload) ==
  LET fromKnown == collectCardsFromObject(payload)
      fromDeep  == deepCollectCards(payload)
  IN IF Len(fromKnown) > 0 THEN fromKnown
     ELSE IF Len(fromDeep) > 0 THEN fromDeep
     ELSE << >>

\* `${card.name}-${card.setNumber ?? ""}-${card.imageUrl}`
DedupeKey(card) ==
  card.name \o <<"-">> \o (IF card.setNumber # Undef THEN card.setNumber ELSE << >>)
            \o <<"-">> \o card.imageUrl

\* Mutant of DedupeFrom: of the cards with one key the last is kept.
RECURSIVE DedupeFromKeepLast(_, _)
DedupeFromKeepLast(cards, seen) ==
  IF cards = << >> THEN << >>
  ELSE IF \E i \in 2..Len(cards) : DedupeKey(cards[i]) = DedupeKey(Head(cards))
    THEN DedupeFromKeepLast(Tail(cards), seen)
  ELSE <<Head(cards)>> \o DedupeFromKeepLast(Tail(cards), seen)

RECURSIVE DedupeFrom(_, _)
DedupeFrom(cards, seen) ==
  IF cards = << >> THEN << >>
  ELSE IF DedupeKey(Head(cards)) \in seen THEN DedupeFrom(Tail(cards), seen)
  ELSE <<Head(cards)>> \o DedupeFrom(Tail(cards), seen \cup {DedupeKey(Head(cards))})

\* Mutant of dedupeCards: the cards are returned as extracted.
dedupeCardsNone(cards) == cards

dedupeCards(cards) == DedupeFrom(cards, {})

\* ------------------------------------------------------------ snapshot file
\* JSON.stringify leaves out the properties of an object whose value is
\* undefined; JSON.parse gives back an object with the properties written.
\* Mutant of JSONstringifyCard: the optional properties are not written.
JSONstringifyCardRequiredOnly(card) == [k \in {"id", "name", "imageUrl"} |-> card[k]]

JSONstringifyCard(card) == [k \in {k \in DOMAIN card : card[k] # Undef} |-> card[k]]

JSONstringifyCards(cards) == [i \in 1..Len(cards) |-> JSONstringifyCard(cards[i])]

\* JSON.stringify(payload, null, 2) of a snapshot payload of either layout
JSONstringify(payload) ==
  IF payload.kind = "cards"
    THEN [payload EXCEPT !.cards = JSONstringifyCards(@)]
  ELSE IF payload.kind = "datasets"
    THEN [payload EXCEPT !.datasets =
            [v \in DOMAIN payload.datasets |->
               [updatedAt |-> payload.datasets[v].updatedAt,
                cards |-> JSONstringifyCards(payload.datasets[v].cards)]]]
  ELSE payload

\* What the snapshot path holds: nothing (absent), bytes that do not parse
\* (torn: truncated, partly written or overlaid), or the JSON text of a
\* payload, which is either the per-variant layout of server/elestrals
\* (datasets) or the single-list layout of api/elestrals/cards.ts (cards).
Absent == [kind |-> "absent"]
Torn == [kind |-> "torn"]

Parses(f) == f.kind \in {"datasets", "cards"}

\* Mutant of emptySnapshot: the fallback carries a time stamp.
emptySnapshotStamped ==
  [updatedAt |-> 1,
   datasets |-> [base |-> [updatedAt |-> 1, cards |-> << >>],
                 all  |-> [updatedAt |-> 1, cards |-> << >>]]]

emptySnapshot ==
  [updatedAt |-> 0,
   datasets |-> [base |-> [updatedAt |-> 0, cards |-> << >>],
                 all  |-> [updatedAt |-> 0, cards |-> << >>]]]

\* server/elestrals/cards.ts readSnapshot on the current file content
readSnapshot(f) ==
  IF ~Parses(f) THEN emptySnapshot
  ELSE IF f.kind = "cards"
    THEN [updatedAt |-> f.updatedAt,
          datasets |-> [base |-> [updatedAt |-> f.updatedAt, cards |-> f.cards],
                        all  |-> [updatedAt |-> f.updatedAt, cards |-> f.cards]]]
    ELSE [updatedAt |-> f.updatedAt, datasets |-> f.datasets]

\* api/elestrals/cards.ts readSnapshot: knows only the single-list layout
readSnapshotList(f) ==
  IF ~Parses(f) THEN [updatedAt |-> 0, cards |-> << >>]
  ELSE IF f.kind = "cards" THEN [updatedAt |-> f.updatedAt, cards |-> f.cards]
  ELSE [updatedAt |-> f.updatedAt, cards |-> << >>]

\* The payload writeSnapshot(cacheKey, cards) builds from what it read
SnapshotPayload(existing, cacheKey, cards, updatedAt) ==
  [kind |-> "datasets",
   updatedAt |-> updatedAt,
   datasets |-> [existing.datasets EXCEPT ![cacheKey] = [updatedAt |-> updatedAt, cards |-> cards]]]

\* The payload of api/elestrals/cards.ts writeSnapshot(cards)
ListPayload(cards, updatedAt) == [kind |-> "cards", updatedAt |-> updatedAt, cards |-> cards]

\* writeFile opens the file with O_TRUNC and writes from offset 0 later.
\* When another writer's text is in the file by then, the result is this
\* writer's text if it is at least as long, and otherwise its text followed
\* by the tail of the other: bytes that do not parse.
FlushOutcomes(f, mine) == {mine} \cup (IF Parses(f) /\ f # mine THEN {Torn} ELSE {})

\* ---------------------------------------------------------------- the world
\* What a source may answer.  status: a non-2xx response; reject: fetch()
\* rejects (transport error, timeout, abort); json: a JSON body, or an html
\* page whose embedded-state block holds it.
Rec(n, img) == [name |-> n, imageUrl |-> img]

\* A body with three records under "cards": two that differ in trailing
\* white space only and one with a set number.
CardsPayload ==
  << <<"cards", << Rec(<<"A">>, <<"u">>), Rec(<<"A", " ">>, <<"u">>),
                   [title |-> <<"B">>, image |-> <<"v">>, number |-> <<"7">>] >> >> >>

\* A body whose records give no card: one without image and one whose name
\* is blank.
MalformedPayload ==
  << <<"cards", << [name |-> <<"C">>, info |-> <<"i">>], Rec(<<" ", " ">>, <<"w">>) >> >> >>

Payloads ==
  { << <<"cards", << >> >> >>,
    CardsPayload,
    MalformedPayload,
    << <<"list", << [title |-> <<"A">>, img |-> <<"u">>], [name |-> <<"C">>] >> >> >> }

\* badjson: the body (or the embedded block of an html page) is not JSON;
\* noblock: an html page without an embedded-state block.
OutcomesFor(type) ==
  {[kind |-> "status"], [kind |-> "reject"], [kind |-> "badjson"]}
    \cup {[kind |-> "json", payload |-> pl] : pl \in Payloads}
    \cup (IF type = "html" THEN {[kind |-> "noblock"]} ELSE {})

\* String(error) of what the attempt throws
Reason(o) == CASE o.kind = "status" -> "Error: Failed to fetch (status 500)"
               [] o.kind = "reject" -> "TypeError: fetch failed"
               [] OTHER -> "SyntaxError: Unexpected token"

\* One attempt, fetchCardsFromJson(url) or fetchCardsFromHtml(url), once the
\* response is in: it throws, or returns the cards extracted.
AttemptResult(o) ==
  IF o.kind \in {"status", "reject", "badjson"}
    THEN [threw |-> TRUE, reason |-> Reason(o), cards |-> << >>]
  ELSE IF o.kind = "noblock"
    THEN [threw |-> FALSE, reason |-> "", cards |-> << >>]
  ELSE [threw |-> FALSE, reason |-> "", cards |-> ExtractCards(o.payload)]

\* `${source.url}: ${String(error)}`
ErrorString(url, reason) == <<url, ": ", reason>>

\* pure holds the argument and the result of one application of a function
\* of the extractor, for the specifications that exercise it on its own.
VARIABLES proc, file, clock, cache, env, nreq, hist, pure, finder

vars == <<proc, file, clock, cache, env, nreq, hist, pure, finder>>

NoResp == [status |-> 0]

\* No function application in progress
NoCall == [fn |-> "none"]

IdleProc ==
  [pc |-> "idle", kind |-> "none", variant |-> "base", wantsRefresh |-> FALSE,
   now |-> 0, idx |-> 0, contacted |-> << >>, inflight |-> {}, errors |-> << >>,
   cards |-> << >>, source |-> "null", existing |-> emptySnapshot,
   payload |-> Absent, dataset |-> [updatedAt |-> 0, cards |-> << >>],
   written |-> [updatedAt |-> 0, cards |-> << >>],
   log |-> << >>, fileOps |-> 0, afterPopulated |-> FALSE, readOk |-> TRUE,
   calledAt |-> 0, writeFailed |-> FALSE,
   refreshAll |-> FALSE, results |-> << >>,
   method |-> "GET", secret |-> Undef,
   resp |-> NoResp]

\* process.env.ELESTRALS_REMOTE_FETCH === "true" || process.env.NODE_ENV !== "production"
remoteAllowed == env.ELESTRALS_REMOTE_FETCH = "true" \/ env.NODE_ENV # "production"

\* The card-finder page (pages/Elestrals.tsx), the sessions table it writes
\* and the viewer page (pages/Source.tsx).  An image url is the number of its
\* card, 0 for null.
NoRow == [exists |-> FALSE, image_url |-> 0, is_revealed |-> FALSE]

IdlePage ==
  [sessionId |-> 0, selectedCard |-> 0,
   sourceData |-> [imageUrl |-> 0, isRevealed |-> FALSE],
   sessions |-> [id \in 1..MaxSessions |-> NoRow],
   inflight |-> {}, sent |-> 0, created |-> 0, clicks |-> 0,
   viewer |-> [sessionId |-> 0, data |-> [imageUrl |-> 0, isRevealed |-> FALSE]],
   fresh |-> FALSE, revealedSince |-> FALSE]

\* The environment of the process: remote fetch and the kind of build
Envs ==
  {[ELESTRALS_REMOTE_FETCH |-> "unset", NODE_ENV |-> "production"],
   [ELESTRALS_REMOTE_FETCH |-> "true", NODE_ENV |-> "production"],
   [ELESTRALS_REMOTE_FETCH |-> "unset", NODE_ENV |-> "development"]}

\* The environment with ELESTRALS_CRON_SECRET not set, empty, or set
CronEnvs ==
  Envs \cup {[ELESTRALS_REMOTE_FETCH |-> e.ELESTRALS_REMOTE_FETCH, NODE_ENV |-> e.NODE_ENV,
               ELESTRALS_CRON_SECRET |-> s] : e \in Envs, s \in {<< >>, <<"s">>}}

InitStateIn(envs) ==
  /\ proc = [p \in Procs |-> IdleProc]
  /\ file = Absent
  /\ clock = 1
  /\ cache = [base |-> [timestamp |-> 0, cards |-> << >>],
              all  |-> [timestamp |-> 0, cards |-> << >>],
              timestamp |-> 0, cards |-> << >>]
  /\ env \in envs
  /\ nreq = 0
  /\ finder = IdlePage
  /\ hist = [everPopulated |-> [v \in Variants |-> FALSE],
             fetched |-> [v \in Variants |-> FALSE],
             complete |-> Absent,
             high |-> [updatedAt |-> 0, base |-> 0, all |-> 0]]

InitState == InitStateIn(Envs)

Init == InitState /\ pure = NoCall

InitCron == InitStateIn(CronEnvs) /\ pure = NoCall

\* --------------------------------------------------------------- helpers
Set(p, rec) == proc' = [proc EXCEPT ![p] = rec]

Max(a, b) == IF a >= b THEN a ELSE b

\* History of the file, kept at every change of it: whether a variant's entry
\* has held at least one card, whether a fetch of the variant's own registry
\* has delivered cards that were written, the last complete content (the
\* snapshot before a write in progress), and the highest updatedAt values
\* stored so far.
NoteFile(f) ==
  LET snap == readSnapshot(f)
  IN [everPopulated |-> [v \in Variants |->
                           hist.everPopulated[v] \/ snap.datasets[v].cards # << >>],
      fetched |-> hist.fetched,
      complete |-> IF Parses(f) THEN f ELSE hist.complete,
      high |-> [updatedAt |-> Max(hist.high.updatedAt, snap.updatedAt),
                base |-> Max(hist.high.base, snap.datasets.base.updatedAt),
                all  |-> Max(hist.high.all, snap.datasets.all.updatedAt)]]

\* History of a read: whether what readSnapshot returned is the complete
\* snapshot from before, or the one after, every write in progress.
ReadIsAtomic(p) ==
  \A q \in Procs \ {p} :
     proc[q].pc \in {"w_flush", "lw_flush"} =>
        readSnapshot(file) \in {readSnapshot(hist.complete),
                                 readSnapshot(JSONstringify(proc[q].payload))}

\* for (const source of CARD_SOURCES[cacheKey])
NextSource(idx) == idx + 1

\* Mutant of AttemptSucceeded: a source that delivers cards does not end the
\* walk.
AttemptSucceededNever(cards) == FALSE

\* if (cards.length) in the loop over the sources
AttemptSucceeded(cards) == Len(cards) > 0

\* Mutant of RecordFailure: the failure is swallowed.
RecordFailureDropped(errors, url, reason) == errors

\* catch (error) { errors.push(`${source.url}: ${String(error)}`) }
RecordFailure(errors, url, reason) == Append(errors, ErrorString(url, reason))

\* Mutant of ShouldPersist: the result is written whatever it holds.
ShouldPersistAlways(cards) == TRUE

\* if (cards.length) in refreshSnapshot
ShouldPersist(cards) == Len(cards) > 0

\* The search handler from the return of refreshSnapshot (or from the read,
\* without refresh) to res.end: q is empty, page 1, default page size.
SearchResponse(dataset0, wantsRefresh, cards, refreshErrors, now) ==
  LET dataset == IF wantsRefresh /\ Len(cards) > 0
                 THEN [updatedAt |-> now, cards |-> cards] ELSE dataset0
  IN IF Len(dataset.cards) = 0
     THEN [status |-> IF wantsRefresh /\ remoteAllowed THEN 502 ELSE 503,
           fields |-> {"error"} \cup (IF Len(refreshErrors) > 0 THEN {"details"} ELSE {}),
           cards |-> << >>, updatedAt |-> 0, errors |-> refreshErrors,
           cached |-> FALSE, stale |-> FALSE, source |-> "null"]
     ELSE [status |-> 200,
           fields |-> {"query", "page", "pageSize", "total", "updatedAt", "cards"},
           cards |-> dataset.cards, updatedAt |-> dataset.updatedAt, errors |-> << >>,
           cached |-> FALSE, stale |-> FALSE, source |-> "null"]

\* A write of variant v's fetched cards has completed
NoteFetched(h, v) == [h EXCEPT !.fetched[v] = TRUE]

\* The handler's promise rejects: nothing catches the error, the platform
\* answers 500 without a body of the handler's
Unhandled ==
  [status |-> 500, fields |-> {}, cards |-> << >>, updatedAt |-> 0, errors |-> << >>,
   cached |-> FALSE, stale |-> FALSE, source |-> "null"]

\* String(error) of a rejected writeFile
WriteErrorReason == "Error: EROFS: read-only file system, open"

\* Date.now(): time does not go back; a reading is the previous one or later
Now == {t \in 1..MaxClock : clock <= t /\ t <= clock + 1}

\* Mutant of SearchDone: the errors of the refresh do not reach the response.
SearchDoneDroppingErrors(pr, cards, source, errors, now) ==
  [pr EXCEPT !.pc = "done", !.cards = cards, !.source = source, !.errors = errors,
             !.resp = SearchResponse(pr.dataset, pr.wantsRefresh, cards, << >>, now)]

\* The cron handler once refreshSnapshot has returned: the result is noted,
\* then refreshSnapshot("all", true) runs up to its first fetch, or the
\* handler goes on to read the snapshot.
CronAfterRefresh(pr, cards, source, errors) ==
  LET noted == [pr EXCEPT !.results = Append(@, [variant |-> pr.variant, count |-> Len(cards),
                                                 source |-> source, errors |-> errors])]
  IN IF pr.variant = "base" /\ pr.refreshAll
       THEN [noted EXCEPT !.variant = "all", !.pc = "f_start", !.idx = 1,
                          !.errors = << >>, !.cards = << >>, !.source = "null"]
       ELSE [noted EXCEPT !.pc = "k_read"]

\* refreshSnapshot returns to its caller: the search handler answers, the
\* cron handler goes on
SearchDone(pr, cards, source, errors, now) ==
  IF pr.kind = "cron" THEN CronAfterRefresh(pr, cards, source, errors)
  ELSE [pr EXCEPT !.pc = "done", !.cards = cards, !.source = source, !.errors = errors,
                  !.resp = SearchResponse(pr.dataset, pr.wantsRefresh, cards, errors, now)]

\* --------------------------------------------------------------- actions
\* GET /api/elestrals/search?base_card=..&refresh=..
StartSearch(p, v, r) ==
  /\ proc[p].pc \in {"idle", "done"}
  /\ nreq' = nreq + 1
  /\ Set(p, [IdleProc EXCEPT !.pc = "s_read", !.kind = "search", !.variant = v,
                             !.wantsRefresh = r,
                             !.afterPopulated = hist.everPopulated[v]])
  /\ UNCHANGED <<file, clock, cache, env, hist, pure, finder>>

\* const snapshot = await readSnapshot(); then, when a refresh is wanted,
\* refreshSnapshot up to its first await
SearchRead(p) ==
  LET pr == proc[p]
      rd == [pr EXCEPT !.dataset = readSnapshot(file).datasets[pr.variant],
                       !.readOk = ReadIsAtomic(p)]
  IN /\ pr.pc = "s_read"
     /\ Set(p, IF ~pr.wantsRefresh THEN SearchDone(rd, << >>, "null", << >>, clock)
               ELSE IF ~remoteAllowed
                 THEN SearchDone(rd, << >>, "null", << <<"Remote fetch disabled.">> >>, clock)
               ELSE [rd EXCEPT !.pc = "f_start", !.idx = 1])
     /\ UNCHANGED <<file, clock, cache, env, nreq, hist, pure, finder>>

\* await fetch(url): the request goes out
FetchStart(p) ==
  LET pr == proc[p]
  IN /\ pr.pc = "f_start"
     /\ Set(p, [pr EXCEPT !.pc = "f_wait",
                          !.inflight = @ \cup {pr.idx},
                          !.contacted = Append(@, pr.idx)])
     /\ UNCHANGED <<file, clock, cache, env, nreq, hist, pure, finder>>

\* refreshSnapshot once fetchCardsFromSources has returned: persist when there
\* are cards, then return to the handler
AfterFetch(pr, cards, source, errors) ==
  IF ShouldPersist(cards)
  THEN [pr EXCEPT !.pc = "w_read", !.cards = cards, !.source = source, !.errors = errors,
                  !.calledAt = clock]
  ELSE SearchDone(pr, cards, source, errors, clock)

\* The response (or the failure) arrives; the rest of the loop body runs, and
\* the loop goes on to the next source or returns.
FetchRespond(p, o) ==
  LET pr     == proc[p]
      reg    == Registry(pr.kind, pr.variant)
      src    == reg[pr.idx]
      res    == AttemptResult(o)
      got    == [pr EXCEPT !.inflight = @ \ {pr.idx},
                           !.log = Append(@, [threw |-> res.threw, reason |-> res.reason,
                                              yielded |-> Len(res.cards) > 0,
                                              cards |-> res.cards])]
      errors == IF res.threw THEN RecordFailure(pr.errors, src.url, res.reason)
                ELSE pr.errors
      next   == NextSource(pr.idx)
      deduped == dedupeCards(res.cards)
  IN /\ pr.pc = "f_wait"
     /\ o \in OutcomesFor(src.type)
     /\ IF ~res.threw /\ AttemptSucceeded(res.cards)
        THEN IF pr.kind = "cards"
             THEN /\ Set(p, [got EXCEPT !.pc = "lw_open", !.cards = deduped,
                                        !.source = src.url])
                  /\ cache' = [cache EXCEPT !.cards = deduped, !.timestamp = pr.now]
             ELSE /\ Set(p, AfterFetch(got, deduped, src.url, pr.errors))
                  /\ UNCHANGED cache
        ELSE /\ Set(p, IF next <= Len(reg)
                       THEN [got EXCEPT !.pc = "f_start", !.idx = next, !.errors = errors]
                       ELSE IF pr.kind = "cards"
                         THEN [got EXCEPT !.pc = "c_read", !.errors = errors]
                         ELSE AfterFetch(got, << >>, "null", errors))
             /\ UNCHANGED cache
     /\ UNCHANGED <<file, clock, env, nreq, hist, pure, finder>>

\* writeSnapshot: const existing = await readSnapshot()
WriteRead(p) ==
  LET pr == proc[p]
  IN /\ pr.pc = "w_read"
     /\ Set(p, [pr EXCEPT !.pc = "w_open", !.existing = readSnapshot(file),
                          !.readOk = @ /\ ReadIsAtomic(p)])
     /\ UNCHANGED <<file, clock, cache, env, nreq, hist, pure, finder>>

\* writeSnapshot: Date.now(), the payload, and writeFile opening the file
WriteOpen(p, now) ==
  LET pr == proc[p]
  IN /\ pr.pc = "w_open"
     /\ now \in Now
     /\ clock' = now
     /\ Set(p, [pr EXCEPT !.pc = "w_flush", !.fileOps = @ + 1,
                          !.payload = SnapshotPayload(pr.existing, pr.variant, pr.cards, now)])
     /\ file' = Torn
     /\ hist' = NoteFile(file')
     /\ UNCHANGED <<cache, env, nreq, pure, finder>>

\* writeSnapshot: writeFile done; refreshSnapshot returns and the handler
\* answers (its Date.now() is the time of the answer)
WriteFlush(p, now) ==
  LET pr == proc[p]
  IN /\ pr.pc = "w_flush"
     /\ now \in Now
     /\ clock' = now
     /\ file' \in FlushOutcomes(file, JSONstringify(pr.payload))
     /\ hist' = NoteFetched(NoteFile(file'), pr.variant)
     /\ Set(p, SearchDone([pr EXCEPT !.fileOps = @ + 1,
                                     !.written = pr.payload.datasets[pr.variant]],
                          pr.cards, pr.source, pr.errors, now))
     /\ UNCHANGED <<cache, env, nreq, pure, finder>>

\* writeSnapshot: writeFile rejects, before it has opened the file or after
\* it has truncated it.  Neither writeSnapshot nor refreshSnapshot nor the
\* search handler catches: the handler's promise rejects.
WriteFail(p) ==
  LET pr == proc[p]
  IN /\ pr.pc \in {"w_open", "w_flush"}
     /\ Set(p, [pr EXCEPT !.pc = "done", !.writeFailed = TRUE, !.resp = Unhandled])
     /\ UNCHANGED <<file, clock, cache, env, nreq, hist, pure, finder>>

\* process.env.ELESTRALS_CRON_SECRET: undefined when the variable is not set
expectedSecret ==
  IF "ELESTRALS_CRON_SECRET" \in DOMAIN env THEN env.ELESTRALS_CRON_SECRET ELSE Undef

\* Mutant of SecretRefused: the secret of the request is not compared.
SecretRefusedNever(secret) == FALSE

\* expectedSecret && secret !== expectedSecret
SecretRefused(secret) == ~Falsy(expectedSecret) /\ secret # expectedSecret

\* The answers of the cron handler that end a request before any refresh
CronRefusal(status) ==
  [status |-> status, fields |-> IF status = 401 THEN {"error"} ELSE {},
   cards |-> << >>, updatedAt |-> 0, errors |-> << >>, cached |-> FALSE,
   stale |-> FALSE, source |-> "null"]

\* A request to /api/cron/elestrals?base=..&all=..&secret=..: 405 unless it
\* is a GET, 401 when a secret is expected and the request's is another (or
\* none), else refreshSnapshot("base", true) up to its first fetch, or the
\* one for all, or neither
StartCron(p, method, secret, refreshBase, refreshAll) ==
  LET pr == [IdleProc EXCEPT !.kind = "cron", !.wantsRefresh = TRUE,
                             !.method = method, !.secret = secret,
                             !.refreshAll = refreshAll,
                             !.variant = IF refreshBase THEN "base" ELSE "all"]
  IN /\ proc[p].pc \in {"idle", "done"}
     /\ nreq' = nreq + 1
     /\ Set(p, IF method # "GET" THEN [pr EXCEPT !.pc = "done", !.resp = CronRefusal(405)]
               ELSE IF SecretRefused(secret)
                 THEN [pr EXCEPT !.pc = "done", !.resp = CronRefusal(401)]
               ELSE IF refreshBase \/ refreshAll THEN [pr EXCEPT !.pc = "f_start", !.idx = 1]
               ELSE [pr EXCEPT !.pc = "k_read"])
     /\ UNCHANGED <<file, clock, cache, env, hist, pure, finder>>

\* The cron handler: const snapshot = await readSnapshot(), then the answer
CronRespond(p, now) ==
  LET pr == proc[p]
      snapshot == readSnapshot(file)
  IN /\ pr.pc = "k_read"
     /\ now \in Now
     /\ clock' = now
     /\ Set(p, [pr EXCEPT !.pc = "done", !.readOk = @ /\ ReadIsAtomic(p),
                          !.resp = [status |-> 200,
                                    fields |-> {"ok", "refreshedAt", "snapshotUpdatedAt",
                                                "datasets", "results"},
                                    cards |-> << >>, updatedAt |-> snapshot.updatedAt,
                                    errors |-> << >>, cached |-> FALSE, stale |-> FALSE,
                                    source |-> "null"]])
     /\ UNCHANGED <<file, cache, env, nreq, hist, pure, finder>>

\* GET /api/elestrals/cards?base_card=..: Date.now(), then the cache check
StartCards(p, v, now) ==
  LET pr == [IdleProc EXCEPT !.kind = "cards", !.variant = v, !.now = now,
                             !.afterPopulated = hist.everPopulated[v]]
      hit == Len(cache[v].cards) > 0 /\ (now - cache[v].timestamp) * MsPerTick < CACHE_TTL_MS
  IN /\ proc[p].pc \in {"idle", "done"}
     /\ nreq' = nreq + 1
     /\ now \in Now
     /\ clock' = now
     /\ Set(p, IF hit
               THEN [pr EXCEPT !.pc = "done",
                               !.resp = [status |-> 200, fields |-> {"cards", "cached", "baseCardOnly"},
                                         cards |-> cache[v].cards, updatedAt |-> 0, errors |-> << >>,
                                         cached |-> TRUE, stale |-> FALSE, source |-> "null"]]
               ELSE [pr EXCEPT !.pc = "f_start", !.idx = 1])
     /\ UNCHANGED <<file, cache, env, hist, pure, finder>>

\* api/elestrals/cards.ts writeSnapshot(deduped): Date.now(), the payload, and
\* writeFile opening the file
ListWriteOpen(p, now) ==
  LET pr == proc[p]
  IN /\ pr.pc = "lw_open"
     /\ now \in Now
     /\ clock' = now
     /\ Set(p, [pr EXCEPT !.pc = "lw_flush", !.fileOps = @ + 1,
                          !.payload = ListPayload(pr.cards, now)])
     /\ file' = Torn
     /\ hist' = NoteFile(file')
     /\ UNCHANGED <<cache, env, nreq, pure, finder>>

\* writeFile done; the handler answers with the cards just fetched
ListWriteFlush(p) ==
  LET pr == proc[p]
  IN /\ pr.pc = "lw_flush"
     /\ file' \in FlushOutcomes(file, JSONstringify(pr.payload))
     /\ hist' = NoteFetched(NoteFile(file'), pr.variant)
     /\ Set(p, [pr EXCEPT !.pc = "done", !.fileOps = @ + 1,
                          !.resp = [status |-> 200,
                                    fields |-> {"cards", "cached", "source", "baseCardOnly"},
                                    cards |-> pr.cards, updatedAt |-> 0, errors |-> << >>,
                                    cached |-> FALSE, stale |-> FALSE, source |-> pr.source]])
     /\ UNCHANGED <<clock, cache, env, nreq, pure, finder>>

\* api/elestrals/cards.ts: writeFile rejects inside the try block of the loop
\* over the sources; the catch records the error under the source's url and
\* the loop goes on.
ListWriteFail(p) ==
  LET pr   == proc[p]
      reg  == Registry(pr.kind, pr.variant)
      next == NextSource(pr.idx)
      failed == [pr EXCEPT !.writeFailed = TRUE,
                           !.errors = RecordFailure(@, reg[pr.idx].url, WriteErrorReason),
                           !.log[Len(pr.log)].threw = TRUE,
                           !.log[Len(pr.log)].reason = WriteErrorReason]
  IN /\ pr.pc \in {"lw_open", "lw_flush"}
     /\ Set(p, IF next <= Len(reg) THEN [failed EXCEPT !.pc = "f_start", !.idx = next]
               ELSE [failed EXCEPT !.pc = "c_read"])
     /\ UNCHANGED <<file, clock, cache, env, nreq, hist, pure, finder>>

\* Every source failed: const snapshot = await readSnapshot(), and the answer
ListFallback(p) ==
  LET pr == proc[p]
      snapshot == readSnapshotList(file)
  IN /\ pr.pc = "c_read"
     /\ Set(p, [pr EXCEPT !.pc = "done", !.dataset = snapshot,
                          !.resp = IF Len(snapshot.cards) > 0
                                   THEN [status |-> 200,
                                         fields |-> {"cards", "cached", "stale", "snapshotUpdatedAt", "errors"},
                                         cards |-> snapshot.cards, updatedAt |-> snapshot.updatedAt,
                                         errors |-> pr.errors, cached |-> TRUE, stale |-> TRUE,
                                         source |-> "null"]
                                   ELSE [status |-> 502, fields |-> {"error", "details"},
                                         cards |-> << >>, updatedAt |-> 0, errors |-> pr.errors,
                                         cached |-> FALSE, stale |-> FALSE, source |-> "null"]])
     /\ UNCHANGED <<file, clock, cache, env, nreq, hist, pure, finder>>

\* ----------------------------------------------------- the extractor alone
\* Raw records given to the extractor: complete under the first alias names,
\* complete under other alias names, without image, with a blank name.
RawRecords ==
  { Rec(<<"A">>, <<"u">>),
    [title |-> <<"B", " ">>, img |-> <<"v">>],
    [name |-> <<"C">>],
    [name |-> <<" ">>, imageUrl |-> <<"w">>] }

RawArrays == UNION {[1..n -> RawRecords] : n \in 0..MaxItems}

\* One property of a payload: left out, or holding an array
PropertyChoices(key, arrays) == {<< >>} \cup {<< <<key, a>> >> : a \in arrays}

\* Payloads with the properties results, cards and list in that order
ExtractInputs ==
  { r \o c \o l : r \in PropertyChoices("results", RawArrays),
                  c \in PropertyChoices("cards", RawArrays),
                  l \in PropertyChoices("list", {<< Rec(<<"D">>, <<"x">>) >>}) }

\* Nested payloads: a graph of objects and arrays.  Node 1 is the payload, an
\* object without name, image or known collection keys; every other node is
\* an object with a name and an image, or an array.  An object or array holds
\* up to two of the nodes, in any arrangement: nested, shared, cyclic.
Nodes == 1..MaxNodes

ChildSets == {S \in SUBSET Nodes : \E a, b \in Nodes : S \subseteq {a, b}}

NodeShapes == [kind : {"card", "array"}, children : ChildSets]

Heaps ==
  { [n \in Nodes |-> IF n = 1 THEN [kind |-> "plain", children |-> c] ELSE rest[n]] :
      c \in ChildSets, rest \in [Nodes \ {1} -> NodeShapes] }

\* The string-valued properties of a node
NodeRecord(heap, n) ==
  IF heap[n].kind = "card"
    THEN [cardName |-> <<"N">> \o IndexString(n), image |-> <<"u">>]
    ELSE [note |-> <<"x">>]

\* A set of nodes in property (or element) order: ascending
RECURSIVE ChildSeq(_)
ChildSeq(S) ==
  IF S = {} THEN << >>
  ELSE LET m == CHOOSE x \in S : \A y \in S : x <= y
       IN <<m>> \o ChildSeq(S \ {m})

\* Mutant of ChildrenToVisit: the traversal does not look inside a node that
\* gave a card.
ChildrenToVisitNotInsideCards(heap, n) ==
  IF heap[n].kind = "card" THEN << >> ELSE ChildSeq(heap[n].children)

\* for (const item of value) / for (const child of Object.values(record))
ChildrenToVisit(heap, n) == ChildSeq(heap[n].children)

\* deepCollectCards: visit(value) with the visited set and the results so far
RECURSIVE visit(_, _, _)
RECURSIVE visitEach(_, _, _)
visit(heap, n, st) ==
  IF n \in st.visited THEN st
  ELSE LET seen == [st EXCEPT !.visited = @ \cup {n}]
           card == buildCard(NodeRecord(heap, n), IndexString(Len(seen.results)))
       IN IF heap[n].kind = "array" THEN visitEach(heap, ChildrenToVisit(heap, n), seen)
          ELSE visitEach(heap, ChildrenToVisit(heap, n),
                         IF card = NoCard THEN seen
                         ELSE [seen EXCEPT !.results = Append(@, card)])

visitEach(heap, children, st) ==
  IF children = << >> THEN st
  ELSE visitEach(heap, Tail(children), visit(heap, Head(children), st))

\* deepCollectCards(payload) on a nested payload
deepCollectCardsNested(heap) == visit(heap, 1, [visited |-> {}, results |-> << >>]).results

\* An html page, as the three patterns of parseHtmlForJson see it.  Each
\* pattern finds nothing (absent) or captures a text, which is JSON of a
\* payload or is not JSON; the __NEXT_DATA__ pattern can capture the empty
\* text, the two state patterns capture at least "{}".
NoMatch == [kind |-> "absent"]

EmptyCapture == [kind |-> "empty"]

CapturedTexts ==
  {[kind |-> "text", json |-> FALSE]}
    \cup {[kind |-> "text", json |-> TRUE, payload |-> pl] : pl \in Payloads}

HtmlPages ==
  [nextData : {NoMatch, EmptyCapture} \cup CapturedTexts,
   initialState : {NoMatch} \cup CapturedTexts,
   preloadedState : {NoMatch} \cup CapturedTexts]

\* match?.[1] is truthy
Captured(m) == m.kind = "text"

\* JSON.parse(text): the value, or a SyntaxError
JSONparse(text) ==
  IF text.json THEN [threw |-> FALSE, found |-> TRUE, payload |-> text.payload]
  ELSE [threw |-> TRUE, found |-> FALSE, payload |-> << >>]

\* parseHtmlForJson(html): the first pattern with a capture decides
parseHtmlForJson(html) ==
  IF Captured(html.nextData) THEN JSONparse(html.nextData)
  ELSE IF Captured(html.initialState) THEN JSONparse(html.initialState)
  ELSE IF Captured(html.preloadedState) THEN JSONparse(html.preloadedState)
  ELSE [threw |-> FALSE, found |-> FALSE, payload |-> << >>]

\* fetchCardsFromHtml(url) after response.text()
fetchCardsFromHtml(html) ==
  LET parsed == parseHtmlForJson(html)
  IN IF parsed.threw THEN [threw |-> TRUE, cards |-> << >>]
     ELSE IF parsed.found THEN [threw |-> FALSE, cards |-> ExtractCards(parsed.payload)]
     ELSE [threw |-> FALSE, cards |-> << >>]

\* Cards given to dedupeCards: two that differ in the id only, one with a set
\* number, and two different cards whose keys are the same text ("A---u").
Card(id, name, imageUrl, setNumber) ==
  [id |-> id, name |-> name, imageUrl |-> imageUrl, setNumber |-> setNumber, info |-> Undef]

SomeCards ==
  { Card(<<"1">>, <<"A">>, <<"u">>, Undef),
    Card(<<"2">>, <<"A">>, <<"u">>, Undef),
    Card(<<"3">>, <<"B">>, <<"v">>, <<"7">>),
    Card(<<"4">>, <<"A", "-">>, <<"u">>, Undef),
    Card(<<"5">>, <<"A">>, <<"-", "u">>, Undef) }

CardLists == UNION {[1..n -> SomeCards] : n \in 0..MaxCards}

\* Raw records given to buildCard alone: under two aliases of the name, the
\* image, the set number and the id, a property is left out, blank, or holds
\* a value of its own.
AliasKeys == {"name", "cardName", "imageUrl", "image", "setNumber", "number", "id", "slug"}

AliasValue(k) ==
  CASE k = "name" -> <<"N">> [] k = "cardName" -> <<"F", "o", "o">>
    [] k = "imageUrl" -> <<"u">> [] k = "image" -> <<"v">>
    [] k = "setNumber" -> <<"1">> [] k = "number" -> <<"2">>
    [] k = "id" -> <<"i">> [] OTHER -> <<"s">>

AliasRecords ==
  { [k \in {k \in AliasKeys : f[k] # "absent"} |->
       IF f[k] = "blank" THEN <<" ", " ">> ELSE AliasValue(k)] :
      f \in [AliasKeys -> {"absent", "blank", "value"}] }

\* No request in progress, an empty file: the state the extractor is
\* exercised in
\* Raw records of one answer: with the id of the source or without, and two
\* printings of one card that differ in the image only.
IdRecords ==
  { [name |-> <<"A">>, image |-> <<"u">>, number |-> <<"7">>],
    [name |-> <<"A">>, image |-> <<"v">>, number |-> <<"7">>],
    [id |-> <<"x">>, name |-> <<"A">>, image |-> <<"u">>],
    [id |-> <<"y">>, name |-> <<"B">>, image |-> <<"u">>],
    [name |-> <<"B">>, image |-> <<"u">>] }

AttemptPayloads ==
  { << <<"cards", a>> >> : a \in UNION {[1..n -> IdRecords] : n \in 1..MaxItems} }

InitExtractState == InitState /\ env.NODE_ENV = "development"

InitExtract ==
  /\ InitExtractState
  /\ pure \in {[fn |-> "collectCardsFromObject", arg |-> pl, done |-> FALSE, result |-> << >>] :
                 pl \in ExtractInputs}
             \cup {[fn |-> "fetchCardsFromHtml", arg |-> h, done |-> FALSE, result |-> << >>] :
                      h \in HtmlPages}
             \cup {[fn |-> "dedupeCards", arg |-> x, done |-> FALSE, result |-> << >>] :
                      x \in CardLists}
             \cup {[fn |-> "buildCard", arg |-> raw, done |-> FALSE, result |-> << >>] :
                      raw \in AliasRecords}
             \cup {[fn |-> "fetchCardsFromSources", arg |-> pl, done |-> FALSE,
                    result |-> << >>] : pl \in AttemptPayloads}

\* const fromKnown = collectCardsFromObject(payload)
ApplyCollectCardsFromObject ==
  /\ pure.fn = "collectCardsFromObject" /\ ~pure.done
  /\ pure' = [pure EXCEPT !.done = TRUE, !.result = collectCardsFromObject(pure.arg)]
  /\ UNCHANGED <<proc, file, clock, cache, env, nreq, hist, finder>>

\* const fromDeep = deepCollectCards(payload)
ApplyDeepCollectCards ==
  /\ pure.fn = "deepCollectCards" /\ ~pure.done
  /\ pure' = [pure EXCEPT !.done = TRUE, !.result = deepCollectCardsNested(pure.arg)]
  /\ UNCHANGED <<proc, file, clock, cache, env, nreq, hist, finder>>

\* const cards = await fetchCardsFromHtml(source.url), the page received
ApplyFetchCardsFromHtml ==
  /\ pure.fn = "fetchCardsFromHtml" /\ ~pure.done
  /\ pure' = [pure EXCEPT !.done = TRUE, !.result = fetchCardsFromHtml(pure.arg)]
  /\ UNCHANGED <<proc, file, clock, cache, env, nreq, hist, finder>>

\* const deduped = dedupeCards(cards)
ApplyDedupeCards ==
  /\ pure.fn = "dedupeCards" /\ ~pure.done
  /\ pure' = [pure EXCEPT !.done = TRUE, !.result = dedupeCards(pure.arg)]
  /\ UNCHANGED <<proc, file, clock, cache, env, nreq, hist, finder>>

\* buildCard(item, `${index}`) for the first element of an array
ApplyBuildCard ==
  /\ pure.fn = "buildCard" /\ ~pure.done
  /\ pure' = [pure EXCEPT !.done = TRUE, !.result = buildCard(pure.arg, IndexString(0))]
  /\ UNCHANGED <<proc, file, clock, cache, env, nreq, hist, finder>>

\* One attempt of fetchCardsFromSources whose answer holds cards:
\* const cards = await fetchCardsFromJson(source.url), dedupeCards(cards)
ApplyFetchAttempt ==
  /\ pure.fn = "fetchCardsFromSources" /\ ~pure.done
  /\ pure' = [pure EXCEPT !.done = TRUE, !.result = dedupeCards(ExtractCards(pure.arg))]
  /\ UNCHANGED <<proc, file, clock, cache, env, nreq, hist, finder>>

NextExtract ==
  \/ ApplyFetchAttempt
  \/ ApplyCollectCardsFromObject
  \/ ApplyFetchCardsFromHtml
  \/ ApplyDedupeCards
  \/ ApplyBuildCard

SpecExtract == InitExtract /\ [][NextExtract]_vars

\* The deep traversal alone, on the nested payloads
InitDeep ==
  /\ InitExtractState
  /\ pure \in {[fn |-> "deepCollectCards", arg |-> h, done |-> FALSE, result |-> << >>] :
                 h \in Heaps}

NextDeep ==
  \/ ApplyDeepCollectCards

SpecDeep == InitDeep /\ [][NextDeep]_vars

\* ---------------------------------------------------------------- the ranker
\* src/pages/Elestrals.tsx: the page scores the cards against the text typed
\* and shows the best MAX_RESULTS.
SCORE_EXACT_MATCH == 1000
SCORE_PREFIX_MATCH == 800
SCORE_INCLUDES_MATCH == 500
SCORE_FUZZY_MATCH == 200
MAX_RESULTS == 50

Min(a, b) == IF a <= b THEN a ELSE b

LowerCaseLetters ==
  <<"a", "b", "c", "d", "e", "f", "g", "h", "i", "j", "k", "l", "m",
    "n", "o", "p", "q", "r", "s", "t", "u", "v", "w", "x", "y", "z">>

UpperCaseLetters ==
  <<"A", "B", "C", "D", "E", "F", "G", "H", "I", "J", "K", "L", "M",
    "N", "O", "P", "Q", "R", "S", "T", "U", "V", "W", "X", "Y", "Z">>

IsUpper(c) == \E i \in 1..26 : UpperCaseLetters[i] = c

toLowerCaseChar(c) ==
  IF IsUpper(c) THEN LowerCaseLetters[CHOOSE i \in 1..26 : UpperCaseLetters[i] = c] ELSE c

toLowerCase(s) == [i \in 1..Len(s) |-> toLowerCaseChar(s[i])]

\* value.trim().toLowerCase()
normalize(value) == toLowerCase(Trim(value))

\* name.startsWith(query)
startsWith(name, query) == Len(query) <= Len(name) /\ SubSeq(name, 1, Len(query)) = query

\* name.indexOf(query): zero-based, -1 when the query does not occur
indexOf(name, query) ==
  LET hits == {i \in 1..(Len(name) - Len(query) + 1) : SubSeq(name, i, i + Len(query) - 1) = query}
  IN IF hits = {} THEN -1 ELSE (CHOOSE i \in hits : \A j \in hits : i <= j) - 1

\* The while loop of getFuzzyScore (indexes zero-based as in the source),
\* taken from one matched character to the next: the characters passed over
\* before the next match, or up to the end of the name, each add a gap.
RECURSIVE FuzzyScan(_, _, _, _, _)
FuzzyScan(name, query, nameIndex, queryIndex, gaps) ==
  IF nameIndex < Len(name) /\ queryIndex < Len(query)
    THEN LET hits == {i \in (nameIndex + 1)..Len(name) : name[i] = query[queryIndex + 1]}
             m == CHOOSE i \in hits : \A j \in hits : i <= j
         IN IF hits = {}
              THEN [queryIndex |-> queryIndex, gaps |-> gaps + (Len(name) - nameIndex)]
              ELSE FuzzyScan(name, query, m, queryIndex + 1, gaps + (m - 1 - nameIndex))
    ELSE [queryIndex |-> queryIndex, gaps |-> gaps]

\* The ratios num / den, in lowest terms and with den below 600, whose
\* percentage ends in one half and for which the product (num / den) * 100
\* of IEEE 754 doubles falls just below that half: 23 / 40 * 100 is
\* 57.49999999999999, 29 / 200 * 100 is 14.499999999999998.
DoubleShortfall == { <<23, 40>>, <<29, 200>>, <<57, 200>>, <<113, 200>> }

\* Math.round(100 * num / den) over the rationals: halves go up
ExactRoundedPercent(num, den) == (200 * num + den) \div (2 * den)

\* Math.round((num / den) * 100) for positive num and den, in doubles
RoundedPercent(num, den) ==
  IF \E r \in DoubleShortfall : num * r[2] = den * r[1]
    THEN ExactRoundedPercent(num, den) - 1
    ELSE ExactRoundedPercent(num, den)

getFuzzyScore(name, query) ==
  LET scan == FuzzyScan(name, query, 0, 0, 0)
  IN IF scan.queryIndex # Len(query) THEN 0
     ELSE SCORE_FUZZY_MATCH + RoundedPercent(Len(query), Len(name)) - scan.gaps

scoreCard(cardName, query) ==
  LET name == normalize(cardName)
      index == indexOf(name, query)
  IN IF query = << >> THEN 0
     ELSE IF name = query THEN SCORE_EXACT_MATCH
     ELSE IF startsWith(name, query)
       THEN SCORE_PREFIX_MATCH + Max(0, 50 - (Len(name) - Len(query)))
     ELSE IF index >= 0 THEN SCORE_INCLUDES_MATCH - index
     ELSE getFuzzyScore(name, query)

\* a.localeCompare(b) for names of letters and spaces: the letters decide
\* whatever their case, a name that is the start of the other comes first,
\* and between names that differ in case only the lower case comes first.
LetterRank(c) ==
  LET l == toLowerCaseChar(c)
  IN IF \E i \in 1..26 : LowerCaseLetters[i] = l
       THEN CHOOSE i \in 1..26 : LowerCaseLetters[i] = l
       ELSE 0

localeCompare(a, b) ==
  LET common == 1..Min(Len(a), Len(b))
      letters == {i \in common : LetterRank(a[i]) # LetterRank(b[i])}
      cases == {i \in common : a[i] # b[i]}
      first(S) == CHOOSE i \in S : \A j \in S : i <= j
  IN IF letters # {}
       THEN (IF LetterRank(a[first(letters)]) < LetterRank(b[first(letters)]) THEN -1 ELSE 1)
     ELSE IF Len(a) # Len(b) THEN (IF Len(a) < Len(b) THEN -1 ELSE 1)
     ELSE IF cases # {} THEN (IF IsUpper(b[first(cases)]) THEN -1 ELSE 1)
     ELSE 0

\* The comparator of results: negative when a goes before b
CompareResults(a, b) ==
  IF b.score = a.score THEN localeCompare(a.card.name, b.card.name) ELSE b.score - a.score

\* Array.prototype.sort with the comparator, which is stable: an element
\* goes to the place after the elements that compare before it and the
\* earlier elements that compare equal to it.
SortResults(scored) ==
  LET n == Len(scored)
      place == [i \in 1..n |->
                  1 + Cardinality({j \in 1..n : \/ CompareResults(scored[j], scored[i]) < 0
                                                \/ /\ CompareResults(scored[j], scored[i]) = 0
                                                   /\ j < i})]
  IN [p \in 1..n |-> scored[CHOOSE i \in 1..n : place[i] = p]]

\* Mutant of SliceTo: the whole array.
SliceToAll(s, n) == s

\* array.slice(0, n)
SliceTo(s, n) == SubSeq(s, 1, Min(Len(s), n))

\* .filter((result) => result.score > 0)
KeepsResult(result) == result.score > 0

\* The results memo of the page for the cards loaded and the text typed
results(cards, query) ==
  LET normalizedQuery == normalize(query)
      scored == [i \in 1..Len(cards) |->
                   [card |-> cards[i], score |-> scoreCard(cards[i].name, normalizedQuery)]]
      top == SliceTo(SortResults(SelectSeq(scored, KeepsResult)), MAX_RESULTS)
  IN IF normalizedQuery = << >> THEN SliceTo(cards, MAX_RESULTS)
     ELSE [i \in 1..Len(top) |-> top[i].card]

\* Card names: an exact match of "ab", one in other case, a prefix match, a
\* substring match, a fuzzy match, no match, and two long names that hold
\* the query far from their start.
Pad(n) == [i \in 1..n |-> "c"]

NamePool ==
  { <<"a", "b">>, <<"A", "b">>, <<"a", "b", "c">>, <<"c", "a", "b">>, <<"a", "c", "b">>,
    <<"c">>, Pad(MaxPad \div 2) \o <<"a", "b">>, Pad(MaxPad) \o <<"a", "b">> }

\* The cards of a list carry their position as id
ListOfNames(names) == [i \in 1..Len(names) |-> [id |-> i, name |-> names[i]]]

\* Long lists repeat a cycle of names: one with a name that matches neither
\* query, one of names that all match
NameCycle ==
  << <<"c", "a", "b">>, <<"a", "b">>, <<"c">>, <<"A", "b">>, <<"a", "c", "b">>, <<"a", "b", "c">> >>

MatchingCycle ==
  << <<"c", "a", "b">>, <<"a", "b">>, <<"A", "b">>, <<"a", "c", "b">>, <<"a", "b", "c">> >>

LongList(cycle, n) == ListOfNames([i \in 1..n |-> cycle[(i % Len(cycle)) + 1]])

AeonNames ==
  << <<"A", "e", "o", "n", " ", "K", "n", "i", "g", "h", "t">>,
     <<"A", "e", "o", "n">>,
     <<"K", "n", "i", "g", "h", "t", " ", "o", "f", " ", "A", "e", "o", "n">> >>

RankLists ==
  {ListOfNames(names) : names \in UNION {[1..n -> NamePool] : n \in 0..MaxListLen}}
    \cup {LongList(cycle, n) : cycle \in {NameCycle, MatchingCycle},
                                n \in (MAX_RESULTS - 1)..(MAX_RESULTS + 1)}
    \cup {ListOfNames(AeonNames)}

Queries ==
  { << >>, <<" ">>, <<"a", "b">>, <<" ", "A", "B">>, <<"b">>, <<"a", "e", "o", "n">> }

\* Names and normalized queries for scoreCard alone: the names of the pool,
\* and a name of 40 characters that holds a query of 23 as a subsequence
\* with 17 characters in between.
Repeat(c, n) == [i \in 1..n |-> c]

ScoreNames ==
  NamePool \cup { <<"b", "a">>, <<" ", "A", "B", " ">>, <<"a", "c", "c", "b", "c">>,
                  Repeat("a", 22) \o Repeat("c", 17) \o <<"b">>,
                  Repeat("a", 11) \o Repeat("c", 8) \o <<"b">> }

ScoreQueries ==
  { <<"a", "b">>, <<"b">>, <<"a", "b", "c">>, <<"c", "b">>,
    Repeat("a", 22) \o <<"b">>, Repeat("a", 11) \o <<"b">> }

InitRank ==
  /\ InitExtractState
  /\ pure \in {[fn |-> "results", arg |-> [cards |-> cs, query |-> q], done |-> FALSE,
                result |-> << >>] : cs \in RankLists, q \in Queries}
            \cup {[fn |-> "scoreCard", arg |-> [cardName |-> n, query |-> q], done |-> FALSE,
                   result |-> 0] : n \in ScoreNames, q \in ScoreQueries}

\* const results = useMemo(...)
ApplyResults ==
  /\ pure.fn = "results" /\ ~pure.done
  /\ pure' = [pure EXCEPT !.done = TRUE, !.result = results(pure.arg.cards, pure.arg.query)]
  /\ UNCHANGED <<proc, file, clock, cache, env, nreq, hist, finder>>

\* scoreCard(card.name, normalizedQuery)
ApplyScoreCard ==
  /\ pure.fn = "scoreCard" /\ ~pure.done
  /\ pure' = [pure EXCEPT !.done = TRUE, !.result = scoreCard(pure.arg.cardName, pure.arg.query)]
  /\ UNCHANGED <<proc, file, clock, cache, env, nreq, hist, finder>>

NextRank ==
  \/ ApplyResults
  \/ ApplyScoreCard

SpecRank == InitRank /\ [][NextRank]_vars

\* ------------------------------------------------------- the paged search
\* api/elestrals/search: the page and pageSize parameters and the slice of
\* the filtered cards answered (the dataset is not empty there).
DEFAULT_PAGE_SIZE == 50
MAX_PAGE_SIZE == 100

\* A parameter of the request URL: left out, a text that is no number, the
\* text Infinity, or a number, held in halves so that 3 stands for 1.5
NoParam == [kind |-> "absent"]

NumberParam(halves) == [kind |-> "num", halves |-> halves]

\* Number(searchParams.get(...) ?? fallback)
ParamNumber(param, fallback) ==
  IF param.kind = "absent" THEN [finite |-> TRUE, halves |-> 2 * fallback]
  ELSE IF param.kind = "num" THEN [finite |-> TRUE, halves |-> param.halves]
  ELSE [finite |-> FALSE, halves |-> 0]

MathFloor(x) == x.halves \div 2

\* Mutant of clampNumber: the value as it is.
clampNumberNone(value, min, max) == value

clampNumber(value, min, max) == Min(Max(value, min), max)

ParsePage(param) ==
  LET pageParam == ParamNumber(param, 1)
  IN IF pageParam.finite THEN Max(1, MathFloor(pageParam)) ELSE 1

ParsePageSize(param) ==
  LET pageSizeParam == ParamNumber(param, DEFAULT_PAGE_SIZE)
  IN IF pageSizeParam.finite THEN clampNumber(MathFloor(pageSizeParam), 1, MAX_PAGE_SIZE)
     ELSE DEFAULT_PAGE_SIZE

\* name.includes(query)
includes(name, query) == indexOf(name, query) >= 0

\* array.slice(start, end) for start, end >= 0
Slice(s, start, end) == SubSeq(s, start + 1, Min(end, Len(s)))

\* Lines 65-85 of the handler for the parameters q, page and pageSize and the
\* cards of the dataset: the body of the 200 answer
searchCards(cards, q, pageParam, pageSizeParam) ==
  LET query == Trim(q)
      page == ParsePage(pageParam)
      pageSize == ParsePageSize(pageSizeParam)
      normalizedQuery == normalize(query)
      matches(card) == includes(normalize(card.name), normalizedQuery)
      filteredCards == IF normalizedQuery # << >> THEN SelectSeq(cards, matches) ELSE cards
      startIndex == (page - 1) * pageSize
      endIndex == startIndex + pageSize
  IN [query |-> query, page |-> page, pageSize |-> pageSize,
      total |-> Len(filteredCards), cards |-> Slice(filteredCards, startIndex, endIndex)]

PageParams ==
  {NoParam, [kind |-> "nan"], [kind |-> "infinity"]}
    \cup {NumberParam(h) : h \in {-2} \cup 0..(2 * MaxPage)}

SmallPageSizeParams ==
  {[kind |-> "nan"], [kind |-> "infinity"]} \cup {NumberParam(h) : h \in {-2} \cup 0..6}

LargePageSizeParams ==
  {NoParam} \cup {NumberParam(h) : h \in (2 * MAX_PAGE_SIZE - 1)..(2 * MAX_PAGE_SIZE + 2)}

\* Short snapshots are asked for with any page size, a snapshot of more than
\* MAX_PAGE_SIZE cards with the large ones
SearchLists == {LongList(NameCycle, n) : n \in 1..MaxSearchCards}

LongSearchList == LongList(NameCycle, MAX_PAGE_SIZE + 1)

SearchQueries ==
  { << >>, <<"a", "b">>, <<" ", "A", "B", " ">>, <<"b">>, <<"z">> }

SearchCall(cs, q, pg, ps) ==
  [fn |-> "searchCards", arg |-> [cards |-> cs, q |-> q, page |-> pg, pageSize |-> ps],
   done |-> FALSE, result |-> << >>]

InitPage ==
  /\ InitExtractState
  /\ pure \in {SearchCall(cs, q, pg, ps) :
                 cs \in SearchLists, q \in SearchQueries, pg \in PageParams,
                 ps \in SmallPageSizeParams \cup LargePageSizeParams}
             \cup {SearchCall(LongSearchList, q, pg, ps) :
                      q \in SearchQueries, pg \in PageParams, ps \in LargePageSizeParams}

\* The handler from the parsing of the parameters to the 200 answer
ApplySearchCards ==
  /\ pure.fn = "searchCards" /\ ~pure.done
  /\ pure' = [pure EXCEPT !.done = TRUE,
                          !.result = searchCards(pure.arg.cards, pure.arg.q,
                                                 pure.arg.page, pure.arg.pageSize)]
  /\ UNCHANGED <<proc, file, clock, cache, env, nreq, hist, finder>>

NextPage ==
  \/ ApplySearchCards

SpecPage == InitPage /\ [][NextPage]_vars

\* ------------------------------------------------------------ specifications
\* Outcomes of the concurrent specification: a failing source or one that
\* delivers cards.
ConcOutcomes ==
  {[kind |-> "status"],
   [kind |-> "json", payload |-> CardsPayload]}

\* Outcomes of the sequential specification: each way an attempt can end
\* (a throw at fetch, a throw at the status check, no card, cards).
AllOutcomes ==
  {[kind |-> "status"], [kind |-> "reject"], [kind |-> "noblock"],
   [kind |-> "json", payload |-> MalformedPayload],
   [kind |-> "json", payload |-> CardsPayload]}

\* Outcomes tried on the walks of the list handler, whose registries are the
\* longer ones: one kind of throw, cards and, at the html sources, no card.
ListOutcomes ==
  AllOutcomes \ {[kind |-> "reject"], [kind |-> "json", payload |-> MalformedPayload]}

\* Search requests served concurrently.
Next ==
  \/ \E p \in Procs, v \in Variants, r \in BOOLEAN : nreq < MaxRequests /\ StartSearch(p, v, r)
  \/ \E p \in Procs : SearchRead(p)
  \/ \E p \in Procs : FetchStart(p)
  \/ \E p \in Procs, o \in ConcOutcomes : FetchRespond(p, o)
  \/ \E p \in Procs : WriteRead(p)
  \/ \E p \in Procs, now \in 1..MaxClock : WriteOpen(p, now)
  \/ \E p \in Procs, now \in 1..MaxClock : WriteFlush(p, now)

Spec == Init /\ [][Next]_vars

\* One request at a time, to either handler, with every outcome of a source;
\* a write may fail, in the list handler once in a request.
Quiet == nreq < MaxSeqRequests /\ \A q \in Procs : proc[q].pc \in {"idle", "done"}

SeqNext ==
  \/ \E v \in Variants, r \in BOOLEAN : Quiet /\ StartSearch(1, v, r)
  \/ \E v \in Variants, now \in 1..MaxClock : Quiet /\ StartCards(1, v, now)
  \/ \E p \in Procs : SearchRead(p)
  \/ \E p \in Procs : FetchStart(p)
  \/ \E p \in Procs, o \in AllOutcomes : proc[p].kind = "search" /\ FetchRespond(p, o)
  \/ \E p \in Procs, o \in ListOutcomes : proc[p].kind = "cards" /\ FetchRespond(p, o)
  \/ \E p \in Procs : WriteRead(p)
  \/ \E p \in Procs, now \in 1..MaxClock : WriteOpen(p, now)
  \/ \E p \in Procs, now \in 1..MaxClock : WriteFlush(p, now)
  \/ \E p \in Procs, now \in 1..MaxClock : ListWriteOpen(p, now)
  \/ \E p \in Procs : ListWriteFlush(p)
  \/ \E p \in Procs : ListFallback(p)
  \/ \E p \in Procs : WriteFail(p)
  \/ \E p \in Procs : ~proc[p].writeFailed /\ ListWriteFail(p)

SpecSeq == Init /\ [][SeqNext]_vars

\* One request at a time, to the cron route or to the search route with
\* refresh=1; a source fails or delivers cards.
CronNext ==
  \/ \E method \in {"GET", "POST"}, secret \in {Undef, <<"s">>, <<"t">>},
        refreshBase, refreshAll \in BOOLEAN :
       Quiet /\ StartCron(1, method, secret, refreshBase, refreshAll)
  \/ \E v \in Variants : Quiet /\ StartSearch(1, v, TRUE)
  \/ \E p \in Procs : SearchRead(p)
  \/ \E p \in Procs : FetchStart(p)
  \/ \E p \in Procs, o \in ConcOutcomes : FetchRespond(p, o)
  \/ \E p \in Procs : WriteRead(p)
  \/ \E p \in Procs, now \in 1..MaxClock : WriteOpen(p, now)
  \/ \E p \in Procs, now \in 1..MaxClock : WriteFlush(p, now)
  \/ \E p \in Procs, now \in 1..MaxClock : CronRespond(p, now)

SpecCron == InitCron /\ [][CronNext]_vars

\* ------------------------------------------------- the card-finder page
\* Requests of the page to the sessions table are in flight until the table
\* has applied (or refused) them and the answer is back; the table applies
\* the requests in flight in any order.
Request(kind, id, image_url, is_revealed) ==
  [n |-> finder.sent + 1, kind |-> kind, id |-> id, image_url |-> image_url,
   is_revealed |-> is_revealed, stage |-> "sent"]

\* History: the card is new when neither a session nor a request in flight
\* holds its image
IsFresh(card) ==
  /\ \A id \in 1..MaxSessions : finder.sessions[id].image_url # card
  /\ \A r \in finder.inflight : r.image_url # card

\* handleSelectCard(card): setSelectedCard(card), then ensureSession up to
\* its await: the update of the page's session, or the upsert of a session
\* with a new id
handleSelectCard(card) ==
  /\ finder.clicks < MaxClicks
  /\ finder.sessionId = 0 => finder.created < MaxSessions
  /\ finder' = [finder EXCEPT
        !.clicks = @ + 1,
        !.selectedCard = card,
        !.sent = @ + 1,
        !.created = IF finder.sessionId = 0 THEN @ + 1 ELSE @,
        !.inflight = @ \cup {IF finder.sessionId # 0
                               THEN Request("update", finder.sessionId, card, FALSE)
                               ELSE Request("upsert", finder.created + 1, card, FALSE)},
        !.fresh = IsFresh(card),
        !.revealedSince = FALSE]
  /\ UNCHANGED <<proc, file, clock, cache, env, nreq, hist, pure>>

\* The operator changes the switch, which shows sourceData.isRevealed:
\* toggleReveal(!sourceData.isRevealed) up to its await
toggleReveal ==
  LET checked == ~finder.sourceData.isRevealed
  IN /\ finder.clicks < MaxClicks
     /\ finder.sessionId # 0 /\ finder.sourceData.imageUrl # 0
     /\ finder' = [finder EXCEPT
           !.clicks = @ + 1,
           !.sourceData.isRevealed = checked,
           !.sent = @ + 1,
           !.inflight = @ \cup {Request("reveal", finder.sessionId, 0, checked)},
           !.revealedSince = @ \/ checked]
     /\ UNCHANGED <<proc, file, clock, cache, env, nreq, hist, pure>>

\* The row of a session after a request: update({ image_url, is_revealed }),
\* upsert({ id, image_url, is_revealed }) or update({ is_revealed })
RowAfter(row, r) ==
  IF r.kind = "reveal" THEN (IF row.exists THEN [row EXCEPT !.is_revealed = r.is_revealed] ELSE row)
  ELSE IF r.kind = "update" /\ ~row.exists THEN row
  ELSE [exists |-> TRUE, image_url |-> r.image_url, is_revealed |-> r.is_revealed]

\* The table applies a request in flight, or refuses it with an error
TableApply(r, ok) ==
  /\ r \in finder.inflight /\ r.stage = "sent"
  /\ finder' = [finder EXCEPT
        !.inflight = (@ \ {r}) \cup {[r EXCEPT !.stage = IF ok THEN "applied" ELSE "failed"]},
        !.sessions[r.id] = IF ok THEN RowAfter(@, r) ELSE @]
  /\ UNCHANGED <<proc, file, clock, cache, env, nreq, hist, pure>>

\* The answer is back and the handler goes on after its await: ensureSession
\* sets sourceData after its update whatever the answer, and after its
\* upsert unless that failed, then with the new session id; toggleReveal
\* logs an error
Resume(r) ==
  /\ r \in finder.inflight /\ r.stage # "sent"
  /\ finder' = [finder EXCEPT
        !.inflight = @ \ {r},
        !.sessionId = IF r.kind = "upsert" /\ r.stage = "applied" THEN r.id ELSE @,
        !.sourceData = IF r.kind = "update" \/ (r.kind = "upsert" /\ r.stage = "applied")
                         THEN [imageUrl |-> r.image_url, isRevealed |-> FALSE]
                         ELSE @]
  /\ UNCHANGED <<proc, file, clock, cache, env, nreq, hist, pure>>

\* The viewer page is opened at /source/:sessionId
OpenSource(id) ==
  /\ finder.viewer.sessionId = 0
  /\ finder' = [finder EXCEPT !.viewer.sessionId = id]
  /\ UNCHANGED <<proc, file, clock, cache, env, nreq, hist, pure>>

\* load() of the viewer page, at once and every second: the row of its
\* session, or an error when there is none
load ==
  LET row == finder.sessions[finder.viewer.sessionId]
  IN /\ finder.viewer.sessionId # 0
     /\ row.exists
     /\ finder.viewer.data # [imageUrl |-> row.image_url, isRevealed |-> row.is_revealed]
     /\ finder' = [finder EXCEPT !.viewer.data = [imageUrl |-> row.image_url,
                                              isRevealed |-> row.is_revealed]]
     /\ UNCHANGED <<proc, file, clock, cache, env, nreq, hist, pure>>

SessionNext ==
  \/ \E card \in 1..MaxPageCards : handleSelectCard(card)
  \/ toggleReveal
  \/ \E r \in finder.inflight, ok \in BOOLEAN : TableApply(r, ok)
  \/ \E r \in finder.inflight : Resume(r)
  \/ \E id \in 1..MaxSessions : OpenSource(id)
  \/ load

SpecSession == Init /\ [][SessionNext]_vars

\* ------------------------------------------------------------------ claims
Active(pr) == pr.kind # "none"
Done(pr) == pr.pc = "done"
UrlAt(pr, i) == Registry(pr.kind, pr.variant)[i].url
StoredCards(v) == readSnapshot(file).datasets[v].cards

\* Two cards with the same value (or undefined) for every property of a card
CardFields == {"id", "name", "imageUrl", "setNumber", "info"}
SameCard(a, b) == \A k \in CardFields : Prop(a, k) = Prop(b, k)
SameCards(x, y) == Len(x) = Len(y) /\ \A i \in 1..Len(x) : SameCard(x[i], y[i])

\* A forced refresh that went to the sources (remote allowed)
Refreshed(pr) == pr.kind = "search" /\ pr.wantsRefresh /\ Len(pr.contacted) > 0

\* C1: the sources of a variant are contacted in registry order, one request
\* at a time; the walk stops at the first source whose payload yields a card:
\* that source is the one returned and none after it is contacted.
C1_OrderedShortCircuit ==
  \A p \in Procs :
    LET pr == proc[p]
    IN /\ pr.contacted = [i \in 1..Len(pr.contacted) |-> i]
       /\ Len(pr.contacted) <= Len(Registry(pr.kind, pr.variant))
       /\ Cardinality(pr.inflight) <= 1
       /\ pr.inflight \subseteq {Len(pr.contacted)}
       /\ \A i \in 1..Len(pr.log) :
            pr.log[i].yielded => i = Len(pr.contacted) /\ pr.source = UrlAt(pr, i)
       /\ pr.source # "null" =>
            Len(pr.log) = Len(pr.contacted) /\ pr.log[Len(pr.log)].yielded

\* C2: no step of a refreshSnapshot call that ends with zero cards changes
\* the snapshot file: it is the same after the call as before it.
C2_EmptyRefreshNeverWrites ==
  [][(proc'[1].kind = "search" /\ proc'[1].wantsRefresh /\ proc'[1].cards = << >>)
       => file' = file]_vars

\* C2 witness: a refresh in which every source failed has returned and the
\* variant's stored card list is still the populated one
C2_Witness ==
  LET pr == proc[1]
  IN Done(pr) /\ Refreshed(pr) /\ pr.cards = << >> /\ pr.fileOps = 0
     /\ pr.afterPopulated /\ StoredCards(pr.variant) # << >>

\* C3: once a variant's snapshot has held a card, every later request for the
\* variant (empty query) is answered with a non-empty card list.
C3_NeverBlanked ==
  \A p \in Procs :
    Done(proc[p]) /\ proc[p].afterPopulated => Len(proc[p].resp.cards) > 0

\* C4: a forced refresh in which every source fails, over a populated snapshot,
\* answers with the prior cards, marked stale, with the fetch errors.
C4_StaleWithErrors ==
  \A p \in Procs :
    LET pr == proc[p]
    IN Done(pr) /\ Refreshed(pr) /\ pr.cards = << >> /\ Len(pr.dataset.cards) > 0
       => /\ pr.resp.cards = pr.dataset.cards
          /\ pr.resp.stale
          /\ pr.resp.errors = pr.errors

\* C5: a source whose payload yields no card counts as a failed attempt with
\* an error recorded, so that when every source fails there is exactly one
\* error per source, in registry order.
C5_OneErrorPerSource ==
  \A p \in Procs :
    LET pr == proc[p]
        reg == Registry(pr.kind, pr.variant)
    IN Active(pr) /\ pr.source = "null" /\ Len(pr.log) = Len(reg) /\ pr.pc \in {"done", "c_read"}
       => /\ pr.cards = << >>
          /\ Len(pr.errors) = Len(reg)
          /\ \A i \in 1..Len(reg) : pr.errors[i][1] = reg[i].url

\* The error strings a walk has recorded are those of its throwing attempts,
\* '<source url>: <reason>', in order.
RECURSIVE ErrorsOf(_, _, _)
ErrorsOf(pr, log, i) ==
  IF log = << >> THEN << >>
  ELSE (IF Head(log).threw THEN <<ErrorString(UrlAt(pr, i), Head(log).reason)>> ELSE << >>)
       \o ErrorsOf(pr, Tail(log), i + 1)

\* C6: a failed fetch appends '<source url>: <reason>' and the next source is
\* tried; when source 1 fails and source 2 delivers, the forced refresh answers
\* with source 2's cards as fresh, has persisted them, and reports exactly one
\* error, which names source 1.
C6_FailureFallsThrough ==
  \A p \in Procs :
    LET pr == proc[p]
    IN /\ Active(pr) /\ pr.pc \in {"f_start", "f_wait", "c_read", "done"} /\ Len(pr.log) > 0
          => pr.errors = ErrorsOf(pr, pr.log, 1)
       /\ \A i \in 1..Len(pr.log) :
            pr.log[i].threw => pr.idx > i \/ i = Len(Registry(pr.kind, pr.variant))
       /\ Done(pr) /\ Refreshed(pr) /\ Len(pr.log) = 2 /\ pr.log[1].threw /\ pr.log[2].yielded
            /\ ~pr.writeFailed
          => /\ pr.source = UrlAt(pr, 2)
             /\ pr.errors = <<ErrorString(UrlAt(pr, 1), pr.log[1].reason)>>
             /\ pr.cards # << >>
             /\ pr.resp.status = 200 /\ pr.resp.cards = pr.cards
             /\ pr.written.cards = pr.cards
             /\ SameCards(StoredCards(pr.variant), pr.cards)

\* C6 witness: source 1 answered HTTP 500, source 2 delivered, the request is done
C6_Witness ==
  \E p \in Procs :
    LET pr == proc[p]
    IN Done(pr) /\ Refreshed(pr) /\ Len(pr.log) = 2 /\ pr.log[2].yielded /\ ~pr.writeFailed
       /\ pr.log[1].reason = Reason([kind |-> "status"])

\* The read-modify-write of writeSnapshot: from the read of the existing
\* snapshot to the end of writeFile
InReadModifyWrite(pr) == pr.pc \in {"w_open", "w_flush"}

\* C7: the read-modify-write sections of two refreshes of the same variant
\* never overlap.
C7_MutualExclusion ==
  \A p, q \in Procs :
    p # q /\ proc[p].variant = proc[q].variant
      => ~(InReadModifyWrite(proc[p]) /\ InReadModifyWrite(proc[q]))

\* C8: when a refresh of base and a refresh of all have both fetched cards and
\* both completed, the snapshot holds the fetched cards of both variants.
C8_BothVariantsKept ==
  \A p, q \in Procs :
    /\ nreq = 2 /\ Parses(file)
    /\ Done(proc[p]) /\ proc[p].variant = "base" /\ proc[p].fileOps = 2
    /\ Done(proc[q]) /\ proc[q].variant = "all" /\ proc[q].fileOps = 2
    => SameCards(StoredCards("base"), proc[p].cards) /\ SameCards(StoredCards("all"), proc[q].cards)

\* C9: a readSnapshot that runs while a write is in progress returns the
\* complete snapshot from before the write or the complete one after it.
C9_AtomicForReaders == \A p \in Procs : proc[p].readOk

\* C10: the updatedAt stored for each variant, and the top-level updatedAt,
\* never decrease: what the file holds is the highest value stored so far.
C10_UpdatedAtMonotonic ==
  Parses(file) =>
    /\ readSnapshot(file).updatedAt = hist.high.updatedAt
    /\ readSnapshot(file).datasets.base.updatedAt = hist.high.base
    /\ readSnapshot(file).datasets.all.updatedAt = hist.high.all

\* C11: writeSnapshot(v, cards) replaces only the entry of v: what it writes
\* for the other variant (card list and updatedAt) is what the snapshot held
\* for it just before the write.
C11_OnlyOwnVariantReplaced ==
  [][\A p \in Procs :
       (proc[p].pc = "w_open" /\ proc'[p].pc = "w_flush" /\ Parses(file))
         => \A v \in Variants \ {proc[p].variant} :
              proc'[p].payload.datasets[v] = readSnapshot(file).datasets[v]]_vars

\* C12: the cards stored for a variant, and the cards served for it, come from
\* a fetch of the variant's own registry: a variant none of whose fetches has
\* delivered holds no cards and is served none.
C12_VariantsIndependent ==
  /\ \A v \in Variants : StoredCards(v) # << >> => hist.fetched[v]
  /\ \A p \in Procs :
       Done(proc[p]) /\ proc[p].resp.status = 200 /\ Len(proc[p].resp.cards) > 0
         => hist.fetched[proc[p].variant]

\* C13: without a forced refresh the search contacts no source and answers
\* with the snapshot's cards for the variant as a normal response, also when
\* that list is empty.
C13_NoRefreshReturnsSnapshot ==
  \A p \in Procs :
    LET pr == proc[p]
    IN Done(pr) /\ pr.kind = "search" /\ ~pr.wantsRefresh
       => /\ pr.contacted = << >>
          /\ pr.resp.status = 200
          /\ pr.resp.cards = pr.dataset.cards

\* C14: a forced refresh with remote fetching not allowed contacts no source
\* and leaves the snapshot alone; over a populated snapshot it answers with
\* the snapshot's cards and with exactly one error, 'Remote fetch disabled.'
C14_RemoteDisabledAnnotated ==
  \A p \in Procs :
    LET pr == proc[p]
    IN Done(pr) /\ pr.kind = "search" /\ pr.wantsRefresh /\ ~remoteAllowed
       /\ Len(pr.dataset.cards) > 0
       => /\ pr.contacted = << >>
          /\ pr.fileOps = 0
          /\ pr.resp.cards = pr.dataset.cards
          /\ pr.resp.errors = << <<"Remote fetch disabled.">> >>

\* Every source of the registry was tried and none delivered a card
AllAttemptsEmpty(pr) ==
  /\ Len(pr.log) = Len(Registry(pr.kind, pr.variant))
  /\ \A i \in 1..Len(pr.log) : ~pr.log[i].yielded

\* C15: when a forced refresh (or the list handler's fetch) yields no card and
\* the snapshot read has no card either, the request is answered, with an
\* error status (502), no cards, and the errors of the fetch.
C15_UnavailableWithErrors ==
  \A p \in Procs :
    LET pr == proc[p]
    IN Done(pr) /\ Active(pr) /\ AllAttemptsEmpty(pr) /\ pr.dataset.cards = << >>
       => /\ pr.resp.status = 502
          /\ "error" \in pr.resp.fields
          /\ pr.resp.cards = << >>
          /\ pr.resp.errors = pr.errors
          /\ Len(pr.errors) > 0 => "details" \in pr.resp.fields

\* C15 witness: a forced refresh over an empty snapshot, every source failed,
\* answered 502 with one error per source
C15_Witness ==
  \E p \in Procs :
    LET pr == proc[p]
    IN Done(pr) /\ Refreshed(pr) /\ AllAttemptsEmpty(pr) /\ pr.dataset.cards = << >>
       /\ pr.resp.status = 502 /\ Len(pr.resp.errors) = Len(pr.log)

\* C16: after writeSnapshot(variant, cards) has completed, readSnapshot()
\* returns for the variant the cards written, in the same order and with the
\* same value for every property, and an updatedAt not earlier than the time
\* of the call.
C16_RoundTrip ==
  \A p \in Procs :
    LET pr == proc[p]
        entry == readSnapshot(file).datasets[pr.variant]
    IN Done(pr) /\ pr.kind = "search" /\ pr.fileOps = 2
       => /\ SameCards(entry.cards, pr.cards)
          /\ entry.updatedAt >= pr.calledAt
          /\ entry.updatedAt = pr.written.updatedAt

\* C16 witness: a write of two cards, one with and one without a set number,
\* has completed and the file holds them
C16_Witness ==
  \E p \in Procs :
    LET pr == proc[p]
    IN Done(pr) /\ pr.kind = "search" /\ pr.fileOps = 2 /\ Len(pr.cards) = 2
       /\ pr.cards[1].setNumber = Undef /\ pr.cards[2].setNumber = <<"7">>
       /\ pr.calledAt > 0 /\ Len(StoredCards(pr.variant)) = 2

\* C17: a readSnapshot of a file that is absent or does not parse returns the
\* all-empty snapshot with updatedAt 0 and the caller goes on: the search
\* handler with an empty dataset, writeSnapshot with its write.
C17_ReadNeverFails ==
  [][\A p \in Procs :
       /\ (proc[p].pc = "w_read" /\ proc'[p].pc # "w_read" /\ ~Parses(file))
            => /\ proc'[p].pc = "w_open"
               /\ proc'[p].existing.updatedAt = 0
               /\ \A v \in Variants :
                    proc'[p].existing.datasets[v] = [updatedAt |-> 0, cards |-> << >>]
       /\ (proc[p].pc = "s_read" /\ proc'[p].pc # "s_read" /\ ~Parses(file))
            => /\ proc'[p].dataset = [updatedAt |-> 0, cards |-> << >>]
               /\ proc'[p].resp.status # 500]_vars

\* C17 witness: writeSnapshot has read a file that a failed write left
\* truncated, got the all-empty snapshot and is about to write
C17_Witness ==
  \E p \in Procs :
    /\ proc[p].pc = "w_open" /\ file = Torn
    /\ proc[p].existing.updatedAt = 0
    /\ proc[p].existing.datasets.base.cards = << >>
    /\ proc[p].existing.datasets.all.cards = << >>

\* C18: a failed write of the snapshot ends the request with the error (the
\* caller of the write and of the refresh gets it) and is never recorded as an
\* error of the source that delivered the cards.
C18_WriteFailurePropagates ==
  \A p \in Procs :
    LET pr == proc[p]
    IN pr.writeFailed
       => /\ Done(pr) /\ pr.resp.status = 500
          /\ \A i \in 1..Len(pr.errors) : pr.errors[i][3] # WriteErrorReason

\* C19: the cards a fetch attempt returns are the (deduplicated) cards of one
\* payload, that of the source returned: the attempt whose payload yields
\* cards is the last one, and no earlier attempt contributes a card.
C19_SingleSourceCards ==
  \A p \in Procs :
    LET pr == proc[p]
    IN /\ \A i \in 1..Len(pr.log) :
            pr.log[i].yielded /\ ~pr.log[i].threw
              => /\ i = Len(pr.log)
                 /\ pr.source = UrlAt(pr, i)
                 /\ pr.cards = dedupeCards(pr.log[i].cards)
                 /\ \A j \in 1..(i - 1) : pr.log[j].threw \/ pr.log[j].cards = << >>
       /\ pr.cards # << >>
            => \E i \in 1..Len(pr.log) :
                 pr.log[i].yielded /\ pr.cards = dedupeCards(pr.log[i].cards)

\* C19 witness: the first source answered with a payload without cards, the
\* second with three records, and the refresh returned the second's two cards
C19_Witness ==
  \E p \in Procs :
    LET pr == proc[p]
    IN Done(pr) /\ Refreshed(pr) /\ Len(pr.log) = 2
       /\ ~pr.log[1].threw /\ pr.log[1].cards = << >>
       /\ Len(pr.log[2].cards) = 3 /\ Len(pr.cards) = 2 /\ pr.source = UrlAt(pr, 2)

\* A raw record with a name and an image under some alias, non-blank once
\* trimmed; the value it has for the field
HasValue(raw, keys) == \E k \in keys : Prop(raw, k) # Undef /\ Trim(Prop(raw, k)) # << >>
ValueOf(raw, keys) == Trim(Prop(raw, CHOOSE k \in keys : Prop(raw, k) # Undef))
NameAliases == {"name", "cardName", "title"}
ImageAliases == {"imageUrl", "image_url", "image", "img", "cardImage"}
WellFormed(raw) == HasValue(raw, NameAliases) /\ HasValue(raw, ImageAliases)

\* The array a payload holds under a key (empty when it has no such property)
ArrayUnder(payload, key) ==
  LET hit == {i \in 1..Len(payload) : payload[i][1] = key}
  IN IF hit = {} THEN << >> ELSE payload[CHOOSE i \in hit : TRUE][2]

\* The well-formed elements under cards, data, items, results, in that order
WellFormedElements(payload) ==
  SelectSeq(ArrayUnder(payload, "cards") \o ArrayUnder(payload, "data")
              \o ArrayUnder(payload, "items") \o ArrayUnder(payload, "results"),
            WellFormed)

\* C20: for a payload with a non-empty array under a known collection key,
\* known-key extraction gives one card for each well-formed element and no
\* other, in element order, the keys taken in the order cards, data, items,
\* results.
C20_KnownKeyExtraction ==
  pure.fn = "collectCardsFromObject" /\ pure.done
    => LET expected == WellFormedElements(pure.arg)
       IN /\ Len(pure.result) = Len(expected)
          /\ \A i \in 1..Len(expected) :
               /\ pure.result[i].name = ValueOf(expected[i], NameAliases)
               /\ pure.result[i].imageUrl = ValueOf(expected[i], ImageAliases)

\* C20 witness: results comes first in the payload and cards second, each with
\* a well-formed element and cards with a malformed one as well; the cards of
\* cards come out first
C20_Witness ==
  /\ pure.fn = "collectCardsFromObject" /\ pure.done
  /\ Len(pure.arg) = 3
  /\ pure.arg[1][2] = << Rec(<<"A">>, <<"u">>) >>
  /\ pure.arg[2][2] = << [name |-> <<"C">>], [title |-> <<"B", " ">>, img |-> <<"v">>] >>
  /\ Len(pure.result) = 2
  /\ pure.result[1].name = <<"B">> /\ pure.result[2].name = <<"A">>

\* The nodes reachable from a set of nodes of a nested payload
RECURSIVE ReachableFrom(_, _)
ReachableFrom(heap, S) ==
  LET T == S \cup UNION {heap[n].children : n \in S}
  IN IF T = S THEN S ELSE ReachableFrom(heap, T)

\* C21: on a nested payload without known collection keys, with shared and
\* cyclic references, the deep traversal ends and gives exactly one card for
\* each reachable object that has a name and an image, at any depth, also
\* for such an object inside another one.
C21_DeepTraversalOncePerNode ==
  pure.fn = "deepCollectCards" /\ pure.done
    => LET heap == pure.arg
           cardNodes == {n \in ReachableFrom(heap, {1}) : heap[n].kind = "card"}
       IN /\ Len(pure.result) = Cardinality(cardNodes)
          /\ \A n \in cardNodes :
               Cardinality({i \in 1..Len(pure.result) :
                              pure.result[i].name = <<"N">> \o IndexString(n)}) = 1

\* C21 witness: the payload holds object 2, which has a name and an image and
\* holds object 3, which has them too and refers back to object 2; both are
\* in the result, once
C21_Witness ==
  /\ pure.fn = "deepCollectCards" /\ pure.done
  /\ pure.arg[1].children = {2}
  /\ pure.arg[2] = [kind |-> "card", children |-> {3}]
  /\ pure.arg[3] = [kind |-> "card", children |-> {2, 3}]
  /\ Len(pure.result) = 2
  /\ pure.result[1].name = <<"N", "2">> /\ pure.result[2].name = <<"N", "3">>

\* A card whose name and imageUrl are present, non-empty and trimmed
ValidCard(card) ==
  \A k \in {"name", "imageUrl"} :
    Prop(card, k) # Undef /\ Prop(card, k) # << >> /\ Trim(Prop(card, k)) = Prop(card, k)

ValidCards(cards) == \A i \in 1..Len(cards) : ValidCard(cards[i])

\* C22: every card extracted from a payload, returned by a fetch attempt,
\* answered, cached or held by the snapshot file has a non-empty trimmed name
\* and a non-empty trimmed imageUrl.
C22_CardsHaveNameAndImage ==
  /\ \A p \in Procs :
       /\ ValidCards(proc[p].cards)
       /\ ValidCards(proc[p].dataset.cards)
       /\ Done(proc[p]) => ValidCards(proc[p].resp.cards)
       /\ \A i \in 1..Len(proc[p].log) : ValidCards(proc[p].log[i].cards)
  /\ \A v \in Variants : ValidCards(StoredCards(v))
  /\ ValidCards(cache.cards)

\* C22 witness: the first source answered with a record without image and
\* one with a blank name and gave no card; the second gave three cards, of
\* which the refresh returned and stored two
C22_Witness ==
  \E p \in Procs :
    LET pr == proc[p]
    IN /\ Done(pr) /\ Refreshed(pr) /\ pr.fileOps = 2
       /\ Len(pr.log) = 2
       /\ ~pr.log[1].threw /\ ~pr.log[1].yielded
       /\ Len(pr.log[2].cards) = 3
       /\ Len(pr.cards) = 2 /\ Len(StoredCards(pr.variant)) = 2

\* The pattern of parseHtmlForJson that decides for a page, if any
DecidingCapture(html) ==
  IF Captured(html.nextData) THEN html.nextData
  ELSE IF Captured(html.initialState) THEN html.initialState
  ELSE html.preloadedState

\* C23: for an html source, a page without an embedded-state block, or one
\* whose captured text is not JSON, makes the html extraction return zero
\* cards; it never raises an error.
C23_HtmlFailureGivesNoCards ==
  (pure.fn = "fetchCardsFromHtml" /\ pure.done) =>
     /\ ~pure.result.threw
     /\ (~Captured(DecidingCapture(pure.arg)) \/ ~DecidingCapture(pure.arg).json)
          => pure.result.cards = << >>


\* The elements of x whose key no earlier element has, in the order of x
RECURSIVE FirstOccurrencesFrom(_, _)
FirstOccurrencesFrom(x, i) ==
  IF i > Len(x) THEN << >>
  ELSE (IF \A j \in 1..(i - 1) : DedupeKey(x[j]) # DedupeKey(x[i]) THEN <<x[i]>> ELSE << >>)
       \o FirstOccurrencesFrom(x, i + 1)

\* a is b with some elements left out
RECURSIVE IsSubsequence(_, _)
IsSubsequence(a, b) ==
  IF a = << >> THEN TRUE
  ELSE IF b = << >> THEN FALSE
  ELSE IF Head(a) = Head(b) THEN IsSubsequence(Tail(a), Tail(b))
  ELSE IsSubsequence(a, Tail(b))

\* C24: dedupeCards(dedupeCards(x)) = dedupeCards(x) for every card list x,
\* and dedupeCards(x) is a subsequence of x: the first occurrence of every
\* key, in the order of x.
C24_DedupeIdempotentOrdered ==
  (pure.fn = "dedupeCards" /\ pure.done) =>
     /\ dedupeCards(pure.result) = pure.result
     /\ IsSubsequence(pure.result, pure.arg)
     /\ pure.result = FirstOccurrencesFrom(pure.arg, 1)

\* A list of three cards with two keys, where the card dropped is another
\* card than the one kept
C24_Witness ==
  /\ pure.fn = "dedupeCards" /\ pure.done
  /\ Len(pure.arg) = 3 /\ Len(pure.result) = 2
  /\ \E i \in 1..3 : \A j \in 1..2 : pure.arg[i] # pure.result[j]


\* The characters of q occur in name, in their order, from position from on
RECURSIVE OccursInOrder(_, _, _)
OccursInOrder(q, name, from) ==
  \/ q = << >>
  \/ \E i \in from..Len(name) : name[i] = Head(q) /\ OccursInOrder(Tail(q), name, i + 1)

\* How a card name matches a normalized query: 4 exact, 3 prefix,
\* 2 substring, 1 fuzzy (the query is a subsequence only), 0 no match
Tier(cardName, query) ==
  LET name == normalize(cardName)
  IN IF name = query THEN 4
     ELSE IF startsWith(name, query) THEN 3
     ELSE IF indexOf(name, query) >= 0 THEN 2
     ELSE IF OccursInOrder(query, name, 1) THEN 1
     ELSE 0

Ranked == pure.fn = "results" /\ pure.done /\ normalize(pure.arg.query) # << >>

\* C25: for one query, an exact match scores strictly higher than any prefix
\* match, a prefix match than any substring match, and a substring match than
\* any fuzzy match; the names Aeon Knight, Aeon, Knight of Aeon with the query
\* aeon are ranked Aeon, Aeon Knight, Knight of Aeon.
C25_TiersStrictlyOrdered ==
  Ranked =>
    LET q == normalize(pure.arg.query)
        cards == pure.arg.cards
    IN /\ \A i, j \in 1..Len(cards) :
            (Tier(cards[i].name, q) > Tier(cards[j].name, q) /\ Tier(cards[j].name, q) >= 1)
              => scoreCard(cards[i].name, q) > scoreCard(cards[j].name, q)
       /\ (cards = ListOfNames(AeonNames) /\ q = <<"a", "e", "o", "n">>)
            => [i \in 1..Len(pure.result) |-> pure.result[i].name]
                 = <<AeonNames[2], AeonNames[1], AeonNames[3]>>


\* Card a does not go after card b in the ranking for query q
NotAfter(a, b, q) ==
  \/ scoreCard(a.name, q) > scoreCard(b.name, q)
  \/ /\ scoreCard(a.name, q) = scoreCard(b.name, q)
     /\ localeCompare(a.name, b.name) <= 0

Shown(card) == \E i \in 1..Len(pure.result) : pure.result[i] = card

\* C26: for a non-empty normalized query the ranking leaves out exactly the
\* cards that score 0, orders the others by score descending and, at equal
\* score, by ascending name, and returns the first 50 of that order: never
\* more than 50 cards, never a card that is not in the list.
C26_RankExcludesSortsTruncates ==
  Ranked =>
    LET q == normalize(pure.arg.query)
        cards == pure.arg.cards
        res == pure.result
    IN /\ Len(res) <= MAX_RESULTS
       /\ \A i \in 1..Len(res) : \E k \in 1..Len(cards) : cards[k] = res[i]
       /\ \A i, j \in 1..Len(res) : i < j => (res[i] # res[j] /\ NotAfter(res[i], res[j], q))
       /\ \A k \in 1..Len(cards) :
            /\ scoreCard(cards[k].name, q) = 0 => ~Shown(cards[k])
            /\ (scoreCard(cards[k].name, q) # 0 /\ ~Shown(cards[k]))
                 => (Len(res) = MAX_RESULTS /\ NotAfter(res[MAX_RESULTS], cards[k], q))


\* C27: when the query is empty after trimming and case folding, the ranking
\* returns the first 50 cards of the list in the order of the list, without
\* scoring or leaving out any of them.
C27_EmptyQueryFirstFifty ==
  (pure.fn = "results" /\ pure.done /\ normalize(pure.arg.query) = << >>) =>
     /\ Len(pure.result) = Min(Len(pure.arg.cards), 50)
     /\ \A i \in 1..Len(pure.result) : pure.result[i] = pure.arg.cards[i]

\* A query of white space over a list of 51 cards
C27_Witness ==
  /\ pure.fn = "results" /\ pure.done
  /\ pure.arg.query = <<" ">>
  /\ Len(pure.arg.cards) = 51 /\ Len(pure.result) = 50
  /\ pure.result[50] = pure.arg.cards[50]


\* q occurs in name as a run of neighbouring characters
Contains(name, q) == \E i \in 0..(Len(name) - Len(q)) : \A k \in 1..Len(q) : name[i + k] = q[k]

\* The cards whose case-folded name contains the case-folded trimmed query,
\* in the order of the list
FilteredBy(cards, q) ==
  LET wanted(card) == Contains(normalize(card.name), normalize(q))
  IN SelectSeq(cards, wanted)

\* C28: the page answered is at least 1 and the page size is within 1..100;
\* the cards answered are the elements (page-1)*pageSize up to page*pageSize
\* of the snapshot cards whose case-folded name contains the case-folded
\* trimmed query, in snapshot order; total is the size of that filtered list
\* on every page, so the pages are disjoint and together give the list.
C28_PaginationSlicesFiltered ==
  (pure.fn = "searchCards" /\ pure.done) =>
    LET r == pure.result
        filtered == FilteredBy(pure.arg.cards, pure.arg.q)
        total == Len(filtered)
        first == (r.page - 1) * r.pageSize
        count == Max(0, Min(r.pageSize, total - first))
        pages == (total + r.pageSize - 1) \div r.pageSize
        pageOf(n) == searchCards(pure.arg.cards, pure.arg.q, NumberParam(2 * n), pure.arg.pageSize)
    IN /\ r.page >= 1
       /\ r.pageSize \in 1..MAX_PAGE_SIZE
       /\ r.total = total
       /\ Len(r.cards) = count
       /\ \A k \in 1..count : r.cards[k] = filtered[first + k]
       /\ \A n \in 1..pages :
            /\ pageOf(n).total = total
            /\ pageOf(n).cards = SubSeq(filtered, (n - 1) * r.pageSize + 1, Min(n * r.pageSize, total))

\* The second page of 101 cards, asked for with a page size above 100
C28_Witness ==
  /\ pure.fn = "searchCards" /\ pure.done
  /\ pure.arg.page = NumberParam(5) /\ pure.arg.pageSize = NumberParam(2 * MAX_PAGE_SIZE + 2)
  /\ pure.result.page = 2 /\ pure.result.pageSize = MAX_PAGE_SIZE
  /\ pure.result.total = MAX_PAGE_SIZE + 1 /\ Len(pure.result.cards) = 1


\* C29: in production without ELESTRALS_REMOTE_FETCH = 'true', neither a
\* search with refresh=1 nor the cron route contacts a catalog source or
\* rewrites the snapshot.
C29_ProductionRefreshDisabled ==
  (env.NODE_ENV = "production" /\ env.ELESTRALS_REMOTE_FETCH # "true") =>
     \A p \in Procs :
        (proc[p].kind \in {"search", "cron"} /\ proc[p].wantsRefresh) =>
           /\ proc[p].contacted = << >>
           /\ proc[p].fileOps = 0


\* The trimmed value of the first alias, in priority order, that the record
\* holds with a value that is not blank
FirstNonBlank(raw, keys) ==
  LET hits == {i \in 1..Len(keys) : Prop(raw, keys[i]) # Undef /\ Trim(Prop(raw, keys[i])) # << >>}
  IN IF hits = {} THEN Undef
     ELSE Trim(Prop(raw, keys[CHOOSE i \in hits : \A j \in hits : i <= j]))

\* C30: buildCard gives each field the value of the first alias in its
\* priority list that is present with a non-empty trimmed value; an alias
\* that is present but blank is passed over for a later one, so a record with
\* name = '  ' and cardName = 'Foo' gives a card named 'Foo'.
C30_FirstNonBlankAlias ==
  (pure.fn = "buildCard" /\ pure.done) =>
    LET raw == pure.arg
        name == FirstNonBlank(raw, <<"name", "cardName", "title">>)
        imageUrl == FirstNonBlank(raw, <<"imageUrl", "image_url", "image", "img", "cardImage">>)
        setNumber == FirstNonBlank(raw, <<"setNumber", "set_number", "cardNumber", "number", "set">>)
        id == FirstNonBlank(raw, <<"id", "slug", "uuid">>)
    IN /\ (name # Undef /\ imageUrl # Undef) =>
            /\ pure.result # NoCard
            /\ pure.result.name = name
            /\ pure.result.imageUrl = imageUrl
            /\ pure.result.setNumber = setNumber
            /\ id # Undef => pure.result.id = id
       /\ raw = [name |-> <<" ", " ">>, cardName |-> <<"F", "o", "o">>, imageUrl |-> <<"u">>]
            => (pure.result # NoCard /\ pure.result.name = <<"F", "o", "o">>)

\* ------------------------------------------------------------ C31 .. C38
\* The gaps of the scan of name for query: the characters of name passed
\* over, from its start to the character that matches the last character of
\* query, that match no character of query in turn.
RECURSIVE GapsUpTo(_, _, _)
GapsUpTo(name, query, from) ==
  IF query = << >> THEN 0
  ELSE LET m == CHOOSE i \in from..Len(name) :
                   name[i] = Head(query) /\ \A j \in from..(i - 1) : name[j] # Head(query)
       IN (m - from) + GapsUpTo(name, Tail(query), m + 1)

\* The score the formula gives to name n for a normalized query q
FormulaScore(n, q) ==
  IF n = q THEN 1000
  ELSE IF startsWith(n, q) THEN 800 + Max(0, 50 - (Len(n) - Len(q)))
  ELSE IF indexOf(n, q) >= 0 THEN 500 - indexOf(n, q)
  ELSE IF OccursInOrder(q, n, 1)
    THEN 200 + ExactRoundedPercent(Len(q), Len(n)) - GapsUpTo(n, q, 1)
  ELSE 0

Scored == pure.fn = "scoreCard" /\ pure.done

\* C31: for a non-empty normalized query q and the case-folded name n,
\* scoreCard gives 1000 when n = q, else 800 + max(0, 50 - (len n - len q))
\* when n starts with q, else 500 - i when q first occurs in n at index i,
\* else 200 + round(100 * len q / len n) - gaps when the characters of q
\* occur in n in order, else 0.
C31_ScoreFormula ==
  Scored => pure.result = FormulaScore(normalize(pure.arg.cardName), pure.arg.query)

\* The formula holds whenever the percentage is not one of the halves that
\* the doubles miss.
C31_FormulaButForDoubleRounding ==
  (Scored /\ ~\E r \in DoubleShortfall :
                 Len(pure.arg.query) * r[2] = Len(normalize(pure.arg.cardName)) * r[1])
    => pure.result = FormulaScore(normalize(pure.arg.cardName), pure.arg.query)

\* A fuzzy match with gaps has been scored by the formula
C31_FuzzyScored ==
  /\ Scored
  /\ pure.arg.cardName = <<"a", "c", "c", "b", "c">> /\ pure.arg.query = <<"a", "b">>
  /\ pure.result = 238


\* The identity key of a card as held by a process or read from the file
\* (setNumber may be missing there)
KeyOf(card) ==
  Prop(card, "name") \o <<"-">>
    \o (IF Prop(card, "setNumber") # Undef THEN Prop(card, "setNumber") ELSE << >>)
    \o <<"-">> \o Prop(card, "imageUrl")

NoTwoWithOneKey(cards) ==
  \A i, j \in 1..Len(cards) : i # j => KeyOf(cards[i]) # KeyOf(cards[j])

\* The attempt of a walk that yielded the cards the walk returned
YieldingAttempts(pr) == {i \in 1..Len(pr.log) : pr.log[i].yielded}

\* C32: the cards returned by a walk over the sources are the cards of the
\* attempt that yielded, each key once and at its first occurrence in the
\* order of extraction, and no card list held by the snapshot file has two
\* cards with one key.
C32_DedupedOncePerAttempt ==
  /\ \A p \in Procs :
       LET pr == proc[p]
       IN /\ NoTwoWithOneKey(pr.cards)
          /\ pr.cards # << >> =>
               \E i \in YieldingAttempts(pr) : pr.cards = FirstOccurrencesFrom(pr.log[i].cards, 1)
          /\ (pr.kind = "search" /\ pr.pc \in {"w_read", "w_open", "w_flush", "done"}
                /\ YieldingAttempts(pr) # {})
               => pr.cards = FirstOccurrencesFrom(pr.log[Len(pr.log)].cards, 1)
  /\ \A v \in Variants : NoTwoWithOneKey(StoredCards(v))

\* C32 witness: the first source of a refresh gave three cards, two of them
\* with one key; two cards were returned and the file holds those two
C32_Witness ==
  \E p \in Procs :
    LET pr == proc[p]
    IN /\ Done(pr) /\ Refreshed(pr)
       /\ Len(pr.log) = 1 /\ Len(pr.log[1].cards) = 3
       /\ ~NoTwoWithOneKey(pr.log[1].cards)
       /\ Len(pr.cards) = 2
       /\ SameCards(StoredCards(pr.variant), pr.cards)


\* Two cards with the same name, set number (none counts as empty) and image
SameIdentity(a, b) ==
  /\ a.name = b.name
  /\ a.imageUrl = b.imageUrl
  /\ (IF a.setNumber # Undef THEN a.setNumber ELSE << >>)
       = (IF b.setNumber # Undef THEN b.setNumber ELSE << >>)

\* C33: dedupeCards leaves out a card only when an earlier card of the list
\* has the same name, the same set number and the same image: a card that
\* differs from every earlier card in one of the three is kept, whatever
\* characters the three hold.
C33_RemovesOnlySameThreeFields ==
  (pure.fn = "dedupeCards" /\ pure.done) =>
     \A i \in 1..Len(pure.arg) :
        (\A j \in 1..(i - 1) : ~SameIdentity(pure.arg[j], pure.arg[i]))
          => \E k \in 1..Len(pure.result) : pure.result[k] = pure.arg[i]


\* C34: for a non-empty query, every card whose case-folded name holds the
\* characters of the query in order, next to each other or not, scores
\* above 0, and is in the result unless the result is at its 50 cards.
C34_EveryMatchScoresPositive ==
  /\ Ranked =>
       LET q == normalize(pure.arg.query)
           cards == pure.arg.cards
       IN \A k \in 1..Len(cards) :
            OccursInOrder(q, normalize(cards[k].name), 1)
              => /\ scoreCard(cards[k].name, q) > 0
                 /\ Shown(cards[k]) \/ Len(pure.result) = MAX_RESULTS
  /\ (Scored /\ OccursInOrder(pure.arg.query, normalize(pure.arg.cardName), 1))
       => pure.result > 0


\* C35: the cards returned by one attempt that succeeded, after dedupe, have
\* ids that differ from one another.
C35_IdsDifferAfterDedupe ==
  (pure.fn = "fetchCardsFromSources" /\ pure.done) =>
     \A i, j \in 1..Len(pure.result) : i # j => pure.result[i].id # pure.result[j].id


\* The list handler has answered the request of pr with the cards of a source
AnsweredFromFetch(pr) ==
  /\ pr.kind = "cards" /\ pr.pc = "done"
  /\ pr.resp.status = 200 /\ ~pr.resp.cached /\ pr.resp.source # "null"

\* C36: once the list handler has answered a request for a variant with the
\* cards of a source, a request for the same variant that arrives less than
\* CACHE_TTL_MS later is answered at once from the in-memory cache, with
\* cached: true, and no source is contacted for it.
C36_CachedWithinTtl ==
  [][\A p \in Procs :
       (/\ AnsweredFromFetch(proc[p])
        /\ nreq' = nreq + 1
        /\ proc'[p].kind = "cards" /\ proc'[p].variant = proc[p].variant
        /\ proc'[p].now >= proc[p].now
        /\ (proc'[p].now - proc[p].now) * MsPerTick < CACHE_TTL_MS)
         => (/\ proc'[p].pc = "done"
             /\ proc'[p].resp.cached /\ ~proc'[p].resp.stale
             /\ proc'[p].contacted = << >>)]_vars


\* A request to the cron route that is no GET, or that comes without the
\* secret the environment sets
NotGet(pr) == pr.kind = "cron" /\ pr.method # "GET"

WrongSecret(pr) ==
  /\ pr.kind = "cron" /\ pr.method = "GET"
  /\ expectedSecret # Undef /\ expectedSecret # << >>
  /\ pr.secret # expectedSecret

NoSideEffect(pr) ==
  /\ pr.pc = "done"
  /\ pr.contacted = << >> /\ pr.inflight = {} /\ pr.log = << >>
  /\ pr.fileOps = 0

\* C37: with ELESTRALS_CRON_SECRET set, a request to the cron route without
\* the secret or with another one is answered 401, and a request that is no
\* GET is answered 405; neither contacts a source nor writes the snapshot.
C37_CronRefusalsHaveNoEffect ==
  /\ [](\A p \in Procs :
         /\ WrongSecret(proc[p]) => (proc[p].resp.status = 401 /\ NoSideEffect(proc[p]))
         /\ NotGet(proc[p]) => (proc[p].resp.status = 405 /\ NoSideEffect(proc[p])))
  /\ [][\A p \in Procs :
          ((WrongSecret(proc[p]) \/ NotGet(proc[p]))' /\ proc'[p] # proc[p])
            => (file' = file /\ cache' = cache /\ hist' = hist)]_vars

\* C37 witness: after a refresh by the cron route has filled the snapshot, a
\* request with another secret than the one set is refused
C37_Witness ==
  \E p \in Procs :
    /\ WrongSecret(proc[p]) /\ proc[p].secret = <<"t">>
    /\ proc[p].resp.status = 401
    /\ nreq = 2 /\ StoredCards("base") # << >>


\* The card selected last was new and reveal has not been switched on since
AwaitingReveal == finder.selectedCard # 0 /\ finder.fresh /\ ~finder.revealedSince

\* C38: after the operator has selected a new card, no session holds the
\* image of that card with is_revealed = true, and the viewer page does not
\* show it revealed, until the operator switches reveal on after the
\* selection; also when a toggleReveal(true) from before is still in flight
\* at the selection.
C38_NewCardStaysHidden ==
  AwaitingReveal =>
     /\ \A id \in 1..MaxSessions :
          ~(finder.sessions[id].image_url = finder.selectedCard /\ finder.sessions[id].is_revealed)
     /\ ~(finder.viewer.data.imageUrl = finder.selectedCard /\ finder.viewer.data.isRevealed)

====
